---- MODULE Spec2Model ----
(***************************************************************************)
(* A model of rspack-resolver: the cached-path store (src/src/cache.rs)    *)
(* under concurrent tasks, and the resolution engine (src/src/lib.rs) as   *)
(* the engine functions that one resolve call runs, each a future on the   *)
(* stack of the call.  Strings are TLA+ strings, read character by         *)
(* character with SubSeq, so that the string operations of the code        *)
(* (strip_prefix, split_once, push of an extension, ...) are computed.     *)
(***************************************************************************)
EXTENDS Integers, Sequences, FiniteSets, TLC

VARIABLES
    fs,         \* the file system behind Cache::fs
    paths,      \* Cache::paths, the set of cached-path nodes (node ids)
    tsconfigs,  \* Cache::tsconfigs, the paths of the memoized tsconfigs
    nodes,      \* every CachedPathImpl allocated so far, by node id
    tasks,      \* the concurrent tasks: their call stacks and results
    calls,      \* how often FileSystem::metadata ran, per path, this generation
    generation, \* number of Cache::clear calls so far
    changes,    \* number of file-system changes so far
    request,    \* the arguments of the resolve call: options, directory, specifier
    outcome,    \* what the resolve call returned, "idle" before it ran
    stack       \* the engine functions of the resolve call that have not returned

vars == <<fs, paths, tsconfigs, nodes, tasks, calls, generation, changes, request, outcome,
          stack>>

-----------------------------------------------------------------------------
(* Strings, as str and std::path::Path handle them.                        *)

Char(s, i) == SubSeq(s, i, i)

Drop(s, n) == SubSeq(s, n + 1, Len(s))

Take(s, n) == SubSeq(s, 1, n)

starts_with(s, p) == Len(p) <= Len(s) /\ Take(s, Len(p)) = p

ends_with(s, p) == Len(p) <= Len(s) /\ Drop(s, Len(s) - Len(p)) = p

\* str::find of a one-character pattern: the first index, 0 when absent
position(s, c) ==
    IF \E i \in 1..Len(s) : Char(s, i) = c
    THEN CHOOSE i \in 1..Len(s) : Char(s, i) = c /\ \A j \in 1..(i - 1) : Char(s, j) # c
    ELSE 0

\* str::rfind of a one-character pattern: the last index, 0 when absent
rposition(s, c) ==
    IF \E i \in 1..Len(s) : Char(s, i) = c
    THEN CHOOSE i \in 1..Len(s) : Char(s, i) = c /\ \A j \in (i + 1)..Len(s) : Char(s, j) # c
    ELSE 0

contains(s, c) == position(s, c) # 0

RECURSIVE replace(_, _, _)
\* str::replace of a one-character pattern
replace(s, c, by) ==
    IF s = "" THEN ""
    ELSE (IF Char(s, 1) = c THEN by ELSE Char(s, 1)) \o replace(Drop(s, 1), c, by)

RECURSIVE trim_start_matches(_, _)
trim_start_matches(s, c) ==
    IF s # "" /\ Char(s, 1) = c THEN trim_start_matches(Drop(s, 1), c) ELSE s

RECURSIVE split(_, _)
\* str::split on a one-character separator
split(s, c) ==
    IF ~contains(s, c) THEN <<s>>
    ELSE LET rest == {Drop(s, position(s, c))}
         IN  <<Take(s, position(s, c) - 1)>> \o (CHOOSE segs \in {split(t, c) : t \in rest} : TRUE)

RECURSIVE skip_segments(_, _)
\* the Normal, CurDir and ParentDir components of the segments of a path: empty
\* segments are skipped, and so is "." unless it is the first segment of a
\* relative path
skip_segments(segs, first) ==
    IF segs = <<>> THEN <<>>
    ELSE (IF Head(segs) = "" \/ (Head(segs) = "." /\ ~first) THEN <<>> ELSE <<Head(segs)>>)
         \o skip_segments(Tail(segs), FALSE)

\* Path::components on a Unix path: "/" for RootDir, a leading "." for CurDir,
\* ".." for ParentDir
components(p) ==
    LET of(s) == IF starts_with(s, "/")
                 THEN <<"/">> \o skip_segments(split(Drop(s, 1), "/"), FALSE)
                 ELSE skip_segments(split(s, "/"), TRUE)
    IN  CHOOSE cs \in {of(s) : s \in {p}} : TRUE

RECURSIVE from_components(_)
\* the path a PathBuf holds after push of each component
from_components(cs) ==
    IF cs = <<>> THEN ""
    ELSE IF Len(cs) = 1 THEN cs[1]
    ELSE IF Len(cs) = 2 /\ cs[1] = "/" THEN "/" \o cs[2]
    ELSE LET front == {SubSeq(cs, 1, Len(cs) - 1)}
         IN  (CHOOSE p \in {from_components(c) : c \in front} : TRUE) \o "/" \o cs[Len(cs)]

is_absolute(p) == starts_with(p, "/")

\* stands for None where a path or a string is optional
NoPath == "<none>"

\* Path::parent of the path with components cs
parent_of(cs) ==
    IF cs = <<>> \/ cs = <<"/">> THEN NoPath
    ELSE from_components(SubSeq(cs, 1, Len(cs) - 1))

\* Path::parent
parent(p) == CHOOSE dir \in {parent_of(cs) : cs \in {components(p)}} : TRUE

\* Path::file_name of the path with components cs: "" stands for None
file_name_of(cs) ==
    IF cs = <<>> \/ cs[Len(cs)] \in {"/", "..", "."} THEN "" ELSE cs[Len(cs)]

\* Path::file_name
file_name(p) == CHOOSE f \in {file_name_of(cs) : cs \in {components(p)}} : TRUE

\* Path::extension of the file name f, without the dot: NoPath stands for None
extension_of(f) ==
    IF f = "" \/ rposition(f, ".") <= 1 THEN NoPath ELSE Drop(f, rposition(f, "."))

\* Path::extension
extension(p) == extension_of(file_name(p))

\* Path::with_extension("")
without_extension(p) ==
    IF extension(p) = NoPath THEN p ELSE Take(p, rposition(p, ".") - 1)

\* Path::join
join(p, s) ==
    IF is_absolute(s) THEN s
    ELSE IF p = "" \/ ends_with(p, "/") THEN p \o s
    ELSE p \o "/" \o s

\* a prefix of whole components
is_prefix(b, a) == Len(b) <= Len(a) /\ SubSeq(a, 1, Len(b)) = b

\* Path::starts_with
path_starts_with(p, base) == is_prefix(components(base), components(p))

\* PathBuf::pop
pop(p) == IF parent(p) = NoPath THEN p ELSE parent(p)

\* PathBuf::push of one component in PathUtil::normalize
push_component(ret, c) ==
    IF c = "." THEN ret
    ELSE IF c = ".." THEN pop(ret)
    ELSE IF c = "/" THEN "/"
    ELSE join(ret, c)

RECURSIVE push_components(_, _)
push_components(ret, cs) ==
    IF cs = <<>> THEN ret
    ELSE push_components(push_component(ret, Head(cs)), Tail(cs))

\* PathUtil::normalize
normalize(p) == push_components("", components(p))

\* PathUtil::normalize_with
normalize_with(base, sub) ==
    IF sub = "" THEN sub
    ELSE IF is_absolute(sub) THEN sub
    ELSE push_components(base, components(sub))

\* the spelling under which Path's Eq and Hash identify a path
key_of(p) == CHOOSE k \in {from_components(cs) : cs \in {components(p)}} : TRUE

-----------------------------------------------------------------------------
(* The file system: kind gives the existing files and directories, link    *)
(* the symbolic links and their targets, json the parsed content of the    *)
(* description files.                                                      *)

\* the entry the operating system finds under the name c of directory cur,
\* following a symbolic link
fs_entry(f, next) == IF next \in DOMAIN f.link THEN f.link[next] ELSE next

RECURSIVE fs_walk(_, _, _)
\* the symlink-free path the operating system reaches for the components cs
\* from cur, NoPath when a component does not exist
fs_walk(f, cur, cs) ==
    IF cur \notin DOMAIN f.kind THEN NoPath
    ELSE IF cs = <<>> THEN cur
    ELSE IF f.kind[cur] # "dir" THEN NoPath
    ELSE LET step == {<<fs_entry(f, push_component(cur, Head(cs))), Tail(cs)>>}
         IN  CHOOSE real \in {fs_walk(f, s[1], s[2]) : s \in step} : TRUE

\* FileSystem::canonicalize
fs_canonicalize(f, p) ==
    CHOOSE real \in {fs_walk(f, "/", cs) : cs \in {components(p)}} : TRUE

\* the kind of the canonical path real
fs_kind(f, real) == IF real = NoPath THEN "none" ELSE f.kind[real]

\* FileSystem::metadata (follows symbolic links): "file", "dir", or "none" on error
fs_metadata(f, p) == CHOOSE k \in {fs_kind(f, real) : real \in {fs_canonicalize(f, p)}} : TRUE

\* FileSystem::symlink_metadata(p).is_ok_and(|m| m.is_symlink)
fs_is_symlink(f, p) ==
    /\ parent(p) # NoPath
    /\ file_name(p) # ""
    /\ fs_metadata(f, parent(p)) = "dir"
    /\ join(fs_canonicalize(f, parent(p)), file_name(p)) \in DOMAIN f.link

\* FileSystem::read succeeded
fs_readable(f, p) == fs_canonicalize(f, p) \in DOMAIN f.json

\* FileSystem::read
fs_read(f, p) == f.json[fs_canonicalize(f, p)]

-----------------------------------------------------------------------------
(* The cached-path store under concurrent tasks (src/src/cache.rs).        *)
(* A task runs the store operations a resolution runs; every access to the *)
(* shared set, to a once-cell or to the file system is one step, so that   *)
(* the steps of concurrent tasks interleave as the threads of the runtime  *)
(* interleave them.                                                        *)

NumTasks == 2

MaxOps == 1

MaxClears == 1

MaxChanges == 1

Tasks == 1..NumTasks

Slots == {"meta", "canonicalized", "node_modules", "package_json"}

\* the paths the tasks ask the store about
StorePaths == {"/a"}

\* the store operations of a resolution
StoreOps == Slots \cup {"tsconfig"}

\* the file systems the store runs on: /a is a directory, or a symbolic link
\* to the directory /r; with node_modules, package.json and the file b, or bare
StoreFs(linked, full) ==
    LET real == IF linked THEN "/r" ELSE "/a"
        base == ("/" :> "dir") @@ (real :> "dir")
    IN [kind |-> IF full
                 THEN base @@ (join(real, "node_modules") :> "dir")
                           @@ (join(real, "package.json") :> "file")
                           @@ (join(real, "tsconfig.json") :> "file")
                 ELSE base,
        link |-> IF linked THEN ("/a" :> "/r") ELSE <<>>,
        json |-> IF full
                 THEN (join(real, "package.json") :> "valid")
                           @@ (join(real, "tsconfig.json") :> "valid")
                 ELSE <<>>]

StoreFileSystems == {StoreFs(FALSE, TRUE), StoreFs(TRUE, TRUE), StoreFs(FALSE, FALSE)}

\* CachedPathImpl::new: every once-cell empty, no permit taken
NewNode(path, parentNode) ==
    [path |-> path, parent |-> parentNode, generation |-> generation,
     meta |-> <<>>, canonicalized |-> <<>>, node_modules |-> <<>>, package_json |-> <<>>,
     permit |-> [s \in Slots |-> 0]]

Frame(op, path, node, pc, aux) ==
    [op |-> op, path |-> path, node |-> node, pc |-> pc, aux |-> aux]

\* seen: the once-cell the task read last and the value it was given
IdleTask == [stack |-> <<>>, ops |-> 0, node |-> 0, val |-> "", err |-> FALSE, seen |-> <<>>]

top(t) == tasks[t].stack[Len(tasks[t].stack)]

running(t, op, pc) ==
    /\ tasks[t].stack # <<>>
    /\ top(t).op = op
    /\ top(t).pc = pc

\* the task goes on with the frames fr in place of its top frame
goto(t, fr) ==
    [tasks EXCEPT ![t].stack = SubSeq(@, 1, Len(@) - 1) \o fr]

\* the top frame returns node n, value v, error e to the frame below it
return(t, n, v, e) ==
    [tasks EXCEPT ![t].stack = SubSeq(@, 1, Len(@) - 1),
                  ![t].node = n, ![t].val = v, ![t].err = e]

\* DashSet::get by the memoized key
lookup(path) ==
    LET hit == {n \in paths : key_of(nodes[n].path) = key_of(path)} IN
    IF hit = {} THEN 0 ELSE CHOOSE n \in hit : TRUE

\* the value a once-cell hands to its reader: a node for node_modules, a string otherwise
cell_node(n, slot) == IF slot = "node_modules" THEN nodes[n][slot][1] ELSE 0

cell_val(n, slot) == IF slot = "node_modules" THEN "" ELSE nodes[n][slot][1]

\* a once-cell that forgets it has been set
initialized_never(n, slot) == FALSE

\* OnceCell::initialized
initialized(n, slot) == nodes[n][slot] # <<>>

\* a task starts a store operation of a resolution on path p: every operation
\* on a cached path first obtains its node from Cache::value.  A task runs at
\* most MaxOps operations per cache generation
Begin(t) ==
    /\ tasks[t].stack = <<>>
    /\ tasks[t].ops < MaxOps
    /\ \E op \in StoreOps, p \in StorePaths :
          tasks' = [tasks EXCEPT
              ![t].ops = @ + 1,
              ![t].stack = IF op = "tsconfig"
                           THEN <<Frame("tsconfig", p, 0, "get", 0)>>
                           ELSE <<Frame(op, p, 0, "enter", 0), Frame("value", p, 0, "get", 0)>>]
    /\ UNCHANGED <<fs, paths, tsconfigs, nodes, calls, generation, changes, request, outcome, stack>>

\* Cache::value, the lookup: a hit returns the entry, a miss goes on to the parent
ValueGet(t) ==
    /\ running(t, "value", "get")
    /\ LET f == top(t)
           hit == lookup(f.path)
       IN tasks' = IF hit # 0 THEN return(t, hit, "", FALSE)
                   ELSE IF parent(f.path) = NoPath
                   THEN goto(t, <<Frame("value", f.path, 0, "insert", 0)>>)
                   ELSE goto(t, <<Frame("value", f.path, 0, "insert", 0),
                                  Frame("value", parent(f.path), 0, "get", 0)>>)
    /\ UNCHANGED <<fs, paths, tsconfigs, nodes, calls, generation, changes, request, outcome, stack>>

\* Cache::value, the insertion: a new node is built and given to DashSet::insert,
\* which keeps the entry it already holds under that key; the new node is returned.
\* The parent's node is the one the recursive call just returned
ValueInsert(t) ==
    /\ running(t, "value", "insert")
    /\ LET f == top(t)
           id == Len(nodes) + 1
           parentNode == IF parent(f.path) = NoPath THEN 0 ELSE tasks[t].node
       IN /\ nodes' = Append(nodes, NewNode(f.path, parentNode))
          /\ paths' = IF lookup(f.path) = 0 THEN paths \cup {id} ELSE paths
          /\ tasks' = return(t, id, "", FALSE)
    /\ UNCHANGED <<fs, tsconfigs, calls, generation, changes, request, outcome, stack>>

\* the frames of a cell's initializer; the one of node_modules is
\* module_directory, which asks the store for path/node_modules and then is_dir
initializer(op, path, n) ==
    IF op = "node_modules"
    THEN <<Frame(op, path, n, "set", 0),
           Frame("meta", join(path, "node_modules"), 0, "enter", 0),
           Frame("value", join(path, "node_modules"), 0, "get", 0)>>
    ELSE <<Frame(op, path, n, "init", 0)>>

\* OnceCell::get_or_init and get_or_try_init: a set cell is read; an empty cell
\* is initialized by the task that gets its permit, the others wait
Enter(t) ==
    /\ tasks[t].stack # <<>>
    /\ top(t).op \in Slots
    /\ top(t).pc = "enter"
    /\ LET f == top(t)
           n == IF f.node = 0 THEN tasks[t].node ELSE f.node
       IN IF initialized(n, f.op)
          THEN /\ tasks' = [return(t, IF f.op = "meta" THEN n ELSE cell_node(n, f.op),
                                    cell_val(n, f.op), FALSE) EXCEPT
                               ![t].seen = <<[node |-> n, slot |-> f.op,
                                              ref |-> cell_node(n, f.op),
                                              val |-> cell_val(n, f.op)]>>]
               /\ nodes' = nodes
          ELSE /\ nodes[n].permit[f.op] = 0
               /\ nodes' = [nodes EXCEPT ![n].permit[f.op] = t]
               /\ tasks' = goto(t, initializer(f.op, f.path, n))
    /\ UNCHANGED <<fs, paths, tsconfigs, calls, generation, changes, request, outcome, stack>>

\* the initializer ends: the cell is set to v (ref for a node) and the permit released
set_cell(t, n, slot, ref, v) ==
    /\ nodes' = [nodes EXCEPT ![n][slot] = <<IF slot = "node_modules" THEN ref ELSE v>>,
                              ![n].permit[slot] = 0]
    /\ tasks' = [return(t, IF slot = "meta" THEN n ELSE ref, v, FALSE) EXCEPT
                    ![t].seen = <<[node |-> n, slot |-> slot, ref |-> ref, val |-> v]>>]

\* a once-cell that is set although its initializer failed
fail_cell_set(t, n, slot) ==
    /\ nodes' = [nodes EXCEPT ![n][slot] = <<NoPath>>, ![n].permit[slot] = 0]
    /\ tasks' = return(t, 0, "", TRUE)

\* get_or_try_init, the initializer failed: the cell stays empty, the permit is released
fail_cell(t, n, slot) ==
    /\ nodes' = [nodes EXCEPT ![n].permit[slot] = 0]
    /\ tasks' = return(t, 0, "", TRUE)

\* CachedPathImpl::meta, the initializer: fs.metadata(path).ok()
MetaInit(t) ==
    /\ running(t, "meta", "init")
    /\ LET f == top(t) IN
          /\ calls' = [calls EXCEPT ![key_of(f.path)] = @ + 1]
          /\ set_cell(t, f.node, "meta", 0, fs_metadata(fs, f.path))
    /\ UNCHANGED <<fs, paths, tsconfigs, generation, changes, request, outcome, stack>>

\* CachedPathImpl::realpath, the initializer
RealpathInit(t) ==
    /\ running(t, "canonicalized", "init")
    /\ LET f == top(t)
           n == f.node
       IN IF fs_is_symlink(fs, f.path)
          THEN IF fs_canonicalize(fs, f.path) = NoPath
               THEN fail_cell(t, n, "canonicalized")
               ELSE set_cell(t, n, "canonicalized", 0, fs_canonicalize(fs, f.path))
          ELSE IF nodes[n].parent # 0
          THEN /\ tasks' = goto(t, <<Frame("canonicalized", f.path, n, "parent", 0),
                                     Frame("canonicalized", nodes[nodes[n].parent].path,
                                           nodes[n].parent, "enter", 0)>>)
               /\ nodes' = nodes
          ELSE set_cell(t, n, "canonicalized", 0, NoPath)
    /\ UNCHANGED <<fs, paths, tsconfigs, calls, generation, changes, request, outcome, stack>>

\* what CachedPathImpl::realpath returns for the cell's value
unwrap_realpath(path, v) == IF v = NoPath THEN path ELSE v

\* CachedPathImpl::realpath, the parent's realpath came back
RealpathParent(t) ==
    /\ running(t, "canonicalized", "parent")
    /\ LET f == top(t)
           n == f.node
           pp == nodes[nodes[n].parent].path
           parent_path == unwrap_realpath(pp, tasks[t].val)
           tail == from_components(SubSeq(components(f.path), Len(components(pp)) + 1,
                                          Len(components(f.path))))
       IN IF tasks[t].err
          THEN fail_cell(t, n, "canonicalized")
          ELSE set_cell(t, n, "canonicalized", 0, normalize_with(parent_path, tail))
    /\ UNCHANGED <<fs, paths, tsconfigs, calls, generation, changes, request, outcome, stack>>

\* module_directory: is_dir(..).then_some(cached_path)
NodeModulesSet(t) ==
    /\ running(t, "node_modules", "set")
    /\ LET f == top(t) IN
          set_cell(t, f.node, "node_modules",
                   IF tasks[t].val = "dir" THEN tasks[t].node ELSE 0, "")
    /\ UNCHANGED <<fs, paths, tsconfigs, calls, generation, changes, request, outcome, stack>>

\* ResolveOptions::symlinks of the resolvers that share the store
StoreSymlinks == TRUE

\* CachedPathImpl::package_json, the initializer: fs.read(path/package.json)
PackageJsonInit(t) ==
    /\ running(t, "package_json", "init")
    /\ LET f == top(t) IN
          IF ~fs_readable(fs, join(f.path, "package.json"))
          THEN set_cell(t, f.node, "package_json", 0, NoPath)
          ELSE IF StoreSymlinks
          THEN /\ tasks' = goto(t, <<Frame("package_json", f.path, f.node, "parse",
                                           IF fs_read(fs, join(f.path, "package.json")) = "invalid"
                                           THEN 1 ELSE 0),
                                     Frame("canonicalized", f.path, f.node, "enter", 0)>>)
               /\ nodes' = nodes
          ELSE IF fs_read(fs, join(f.path, "package.json")) = "invalid"
          THEN fail_cell(t, f.node, "package_json")
          ELSE set_cell(t, f.node, "package_json", 0, join(f.path, "package.json"))
    /\ UNCHANGED <<fs, paths, tsconfigs, calls, generation, changes, request, outcome, stack>>

\* CachedPathImpl::package_json: the realpath came back, PackageJson::parse of
\* the content that was read (aux = 1: the content is no JSON)
PackageJsonParse(t) ==
    /\ running(t, "package_json", "parse")
    /\ LET f == top(t) IN
          IF tasks[t].err \/ f.aux = 1
          THEN fail_cell(t, f.node, "package_json")
          ELSE set_cell(t, f.node, "package_json", 0,
                        join(unwrap_realpath(f.path, tasks[t].val), "package.json"))
    /\ UNCHANGED <<fs, paths, tsconfigs, calls, generation, changes, request, outcome, stack>>

\* Cache::tsconfig, the lookup in the tsconfigs table
TsconfigGet(t) ==
    /\ running(t, "tsconfig", "get")
    /\ tasks' = IF key_of(top(t).path) \in tsconfigs
                THEN return(t, 0, key_of(top(t).path), FALSE)
                ELSE goto(t, <<Frame("tsconfig", top(t).path, 0, "metadata", 0)>>)
    /\ UNCHANGED <<fs, paths, tsconfigs, nodes, calls, generation, changes, request, outcome, stack>>

\* Cache::tsconfig: fs.metadata(path) chooses the file to read
tsconfig_path(path, meta) ==
    IF meta = "file" THEN path
    ELSE IF meta = "dir" THEN join(path, "tsconfig.json")
    ELSE path \o ".json"

TsconfigMetadata(t) ==
    /\ running(t, "tsconfig", "metadata")
    /\ LET f == top(t) IN
          /\ calls' = [calls EXCEPT ![key_of(f.path)] = @ + 1]
          /\ tasks' = [goto(t, <<Frame("tsconfig", f.path, 0, "read", 0)>>) EXCEPT
                          ![t].val = tsconfig_path(f.path, fs_metadata(fs, f.path))]
    /\ UNCHANGED <<fs, paths, tsconfigs, nodes, generation, changes, request, outcome, stack>>

\* Cache::tsconfig: read_to_string, parse, build and the insertion into the table
TsconfigRead(t) ==
    /\ running(t, "tsconfig", "read")
    /\ IF fs_readable(fs, tasks[t].val)
       THEN /\ tsconfigs' = tsconfigs \cup {key_of(top(t).path)}
            /\ tasks' = return(t, 0, key_of(top(t).path), FALSE)
       ELSE /\ tsconfigs' = tsconfigs
            /\ tasks' = return(t, 0, "", TRUE)
    /\ UNCHANGED <<fs, paths, nodes, calls, generation, changes, request, outcome, stack>>

\* Cache::clear, called when no lookup is in flight: no task holds a node then,
\* so that the nodes the set drops are freed
Clear ==
    /\ generation < MaxClears
    /\ \A t \in Tasks : tasks[t].stack = <<>>
    /\ paths' = {}
    /\ tsconfigs' = {}
    /\ nodes' = <<>>
    /\ calls' = [p \in DOMAIN calls |-> 0]
    /\ generation' = generation + 1
    /\ tasks' = [t \in Tasks |-> IdleTask]
    /\ UNCHANGED <<fs, changes, request, outcome, stack>>

\* DashSet::clear and DashMap::clear that drop nothing
cleared_never(entries) == entries

\* DashSet::clear and DashMap::clear: the table after the call
cleared(entries) == {}

\* ResolverGeneric::clear_cache, called when no resolution is under way on
\* the cache: no task holds a node then.  Cache::clear empties the two
\* tables; the nodes that the set held stay in nodes, which numbers every
\* node ever built, and whether one of them is reached again is up to the
\* tables and to the links of the nodes built later
ClearCache ==
    /\ generation < MaxClears
    /\ \A t \in Tasks : tasks[t].stack = <<>>
    /\ paths' = cleared(paths)
    /\ tsconfigs' = cleared(tsconfigs)
    /\ calls' = [p \in DOMAIN calls |-> 0]
    /\ generation' = generation + 1
    /\ tasks' = [t \in Tasks |-> IdleTask]
    /\ UNCHANGED <<fs, nodes, changes, request, outcome, stack>>

\* the environment changes the file system
FsChange ==
    /\ changes < MaxChanges
    /\ fs' \in StoreFileSystems \ {fs}
    /\ changes' = changes + 1
    /\ UNCHANGED <<paths, tsconfigs, nodes, tasks, calls, generation, request, outcome, stack>>

StoreKeys == {"/", "/a", "/a/node_modules"}

StoreInit ==
    /\ fs \in StoreFileSystems
    /\ paths = {}
    /\ tsconfigs = {}
    /\ nodes = <<>>
    /\ tasks = [t \in Tasks |-> IdleTask]
    /\ calls = [p \in StoreKeys |-> 0]
    /\ generation = 0
    /\ changes = 0
    /\ request = <<>>
    /\ outcome = "idle"
    /\ stack = <<>>

StoreNext ==
    \/ \E t \in Tasks :
          \/ Begin(t)
          \/ ValueGet(t)
          \/ ValueInsert(t)
          \/ Enter(t)
          \/ MetaInit(t)
          \/ RealpathInit(t)
          \/ RealpathParent(t)
          \/ NodeModulesSet(t)
          \/ PackageJsonInit(t)
          \/ PackageJsonParse(t)
          \/ TsconfigGet(t)
          \/ TsconfigMetadata(t)
          \/ TsconfigRead(t)
    \/ Clear
    \/ FsChange

StoreSpec == StoreInit /\ [][StoreNext]_vars

\* the steps of a store operation that task t has begun
Step(t) ==
    \/ ValueGet(t)
    \/ ValueInsert(t)
    \/ Enter(t)
    \/ MetaInit(t)
    \/ RealpathInit(t)
    \/ RealpathParent(t)
    \/ NodeModulesSet(t)
    \/ PackageJsonInit(t)
    \/ PackageJsonParse(t)
    \/ TsconfigGet(t)
    \/ TsconfigMetadata(t)
    \/ TsconfigRead(t)

\* permits that stay with a task whose future was dropped
released_never(permit, t) == permit

\* the permits of the once-cells of a node after the futures of task t were
\* dropped: a permit that is dropped goes back to its cell
released(permit, t) == [slot \in Slots |-> IF permit[slot] = t THEN 0 ELSE permit[slot]]

\* the once-cells whose initializer task t is running
initializing(t) ==
    {c \in (1..Len(nodes)) \X Slots : nodes[c[1]].permit[c[2]] = t}

\* the resolution of task t is cancelled: its future is dropped at the await
\* it has reached, with the futures of the initializers it was running.  In
\* the specification of cancellation outcome is the set of the once-cells
\* whose initializer was dropped before it ended
Cancel(t) ==
    /\ tasks[t].stack # <<>>
    /\ nodes' = [n \in DOMAIN nodes |-> [nodes[n] EXCEPT !.permit = released(@, t)]]
    /\ tasks' = [tasks EXCEPT ![t] = [IdleTask EXCEPT !.ops = tasks[t].ops]]
    /\ outcome' = outcome \cup initializing(t)
    /\ UNCHANGED <<fs, paths, tsconfigs, calls, generation, changes, request, stack>>

CancelInit ==
    /\ fs \in {StoreFs(FALSE, TRUE), StoreFs(TRUE, TRUE)}
    /\ paths = {}
    /\ tsconfigs = {}
    /\ nodes = <<>>
    /\ tasks = [t \in Tasks |-> IdleTask]
    /\ calls = [p \in StoreKeys |-> 0]
    /\ generation = 0
    /\ changes = 0
    /\ request = <<>>
    /\ outcome = {}
    /\ stack = <<>>

CancelNext == \E t \in Tasks : Begin(t) \/ Step(t) \/ Cancel(t)

\* the runtime polls every task that can go on
CancelSpec == CancelInit /\ [][CancelNext]_vars /\ \A t \in Tasks : WF_vars(Step(t))


\* /a/package.json is no JSON
StoreFsInvalid == [StoreFs(FALSE, TRUE) EXCEPT !.json["/a/package.json"] = "invalid"]

\* /a is a symbolic link to a directory that does not exist
StoreFsDangling == [kind |-> ("/" :> "dir"), link |-> ("/a" :> "/r"), json |-> <<>>]

\* the store on a file system where an initializer fails
FailInit ==
    /\ fs \in {StoreFsInvalid, StoreFsDangling}
    /\ paths = {}
    /\ tsconfigs = {}
    /\ nodes = <<>>
    /\ tasks = [t \in Tasks |-> IdleTask]
    /\ calls = [p \in StoreKeys |-> 0]
    /\ generation = 0
    /\ changes = 0
    /\ request = <<>>
    /\ outcome = "idle"
    /\ stack = <<>>

FailNext == \E t \in Tasks : Begin(t) \/ Step(t)

FailSpec == FailInit /\ [][FailNext]_vars

\* no other task is in a store operation: the resolutions run one after the
\* other
alone(t) == \A u \in Tasks \ {t} : tasks[u].stack = <<>>

\* resolutions that run one at a time on the store, before and after a
\* clear_cache
ClearNext ==
    \/ \E t \in Tasks :
          /\ alone(t)
          /\ \/ Begin(t)
             \/ ValueGet(t)
             \/ ValueInsert(t)
             \/ Enter(t)
             \/ MetaInit(t)
             \/ RealpathInit(t)
             \/ RealpathParent(t)
             \/ NodeModulesSet(t)
             \/ PackageJsonInit(t)
             \/ PackageJsonParse(t)
             \/ TsconfigGet(t)
             \/ TsconfigMetadata(t)
             \/ TsconfigRead(t)
    \/ ClearCache
    \/ FsChange

ClearSpec == StoreInit /\ [][ClearNext]_vars

\* ---------------------------------------------------------------------------
\* The store under concurrent use

\* C1: within one cache generation every Cache::value call for a path returns
\* the same shared node, so that no two nodes handed out stand for one path
C1_OneNodePerPath ==
    \A i, j \in 1..Len(nodes) :
        key_of(nodes[i].path) = key_of(nodes[j].path) => i = j

\* C2: within one cache generation fs.metadata is called at most once per path
C2_MetadataAtMostOnce ==
    \A p \in DOMAIN calls : calls[p] <= 1

\* a set once-cell of a node keeps its value for as long as the node lives
SlotsKeepTheirValue ==
    \A n \in 1..Len(nodes) : \A slot \in Slots :
        (nodes[n][slot] # <<>> /\ n <= Len(nodes')) => nodes'[n][slot] = nodes[n][slot]

\* the value a task was given by a once-cell is the value the cell holds
ReadersSeeTheCell ==
    \A t \in Tasks :
        tasks[t].seen # <<>> =>
            LET r == tasks[t].seen[1] IN
            nodes[r.node][r.slot] = <<IF r.slot = "node_modules" THEN r.ref ELSE r.val>>

\* C9: each lazy slot of a node (meta, canonicalized, node_modules,
\* package_json) is written at most once, and every reader sees that one value
C9_SlotWrittenOnce == [][SlotsKeepTheirValue /\ ReadersSeeTheCell']_vars

\* C9: two tasks have read the same cell of the same node, after the file
\* system changed under the store
C9_Witness ==
    /\ changes > 0
    /\ \A t \in Tasks : tasks[t].seen # <<>>
    /\ \A t, u \in Tasks :
          /\ tasks[t].seen[1].node = tasks[u].seen[1].node
          /\ tasks[t].seen[1].slot = tasks[u].seen[1].slot

-----------------------------------------------------------------------------
(* The resolution engine (src/src/lib.rs).  One resolve call is a function *)
(* of the file system, the options, the directory and the specifier.  Each *)
(* operation of the engine is an operator over r, the state of the call so *)
(* far: r.k is "none" while no step has decided the result, "ok" with the  *)
(* path r.p, or "err" with the error r.e and its arguments r.a, r.b; r.ctx *)
(* is the Ctx; r.pkg the package.json found last.  An operation given a    *)
(* decided r returns it: this is the early return of the code.             *)

\* the maximum of Ctx::depth
MaxDepth == 3

\* JSON values
JStr(v) == [t |-> "str", v |-> v]

JBool(v) == [t |-> "bool", v |-> v]

JNull == [t |-> "null", v |-> <<>>]

JObj(members) == [t |-> "obj", v |-> members]

JArr(items) == [t |-> "arr", v |-> items]

\* a description file that does not parse
JInvalid == [t |-> "invalid", v |-> <<>>]

RECURSIVE members_get(_, _)
\* Object::get on the members of an object: <<>> for None
members_get(members, key) ==
    IF members = <<>> THEN <<>>
    ELSE IF Head(members)[1] = key THEN <<Head(members)[2]>>
    ELSE members_get(Tail(members), key)

\* Value::as_object().and_then(|o| o.get(key))
json_get(value, key) == IF value.t = "obj" THEN members_get(value.v, key) ELSE <<>>

\* ResolveOptions::default, after sanitize
DefaultOptions ==
    [alias |-> <<>>, alias_fields |-> <<>>, condition_names |-> <<>>,
     description_files |-> <<"package.json">>, enforce_extension |-> FALSE,
     extension_alias |-> <<>>, exports_fields |-> << <<"exports">> >>,
     imports_fields |-> << <<"imports">> >>, extensions |-> <<".js", ".json">>,
     fallback |-> <<>>, fully_specified |-> FALSE, main_fields |-> <<"main">>,
     main_files |-> <<"index">>, modules |-> <<"node_modules">>,
     resolve_to_context |-> FALSE, prefer_relative |-> FALSE, prefer_absolute |-> FALSE,
     restrictions |-> <<>>, roots |-> <<>>, symlinks |-> TRUE, builtin_modules |-> FALSE,
     tsconfig |-> <<>>]

\* Ctx::default
DefaultCtx ==
    [fully_specified |-> FALSE, query |-> NoPath, fragment |-> NoPath,
     resolving_alias |-> NoPath, depth |-> 0, track |-> FALSE,
     file_dependencies |-> {}, missing_dependencies |-> {}]

NoPackage == [found |-> FALSE, path |-> NoPath, realpath |-> NoPath, json |-> JNull]

\* no tsconfig was loaded
NoTsconfig ==
    [root |-> FALSE, path |-> NoPath, extends |-> <<>>, base_url |-> NoPath,
     has_paths |-> FALSE, paths |-> <<>>, paths_base |-> "", references |-> <<>>]

\* the state of a resolve call before its first step.  ts is the tsconfig
\* loaded last and should_stop the flag of the alias key at hand; awaited is
\* the call whose return the engine function at hand waits for; log, ignored
\* and active observe the call and do not influence it
Start ==
    [k |-> "none", p |-> NoPath, e |-> "", a |-> "", b |-> "",
     ctx |-> DefaultCtx, pkg |-> NoPackage, ts |-> NoTsconfig, should_stop |-> FALSE,
     awaited |-> <<>>, log |-> <<>>, ignored |-> FALSE, active |-> {}, consulted |-> {}]

undecided(r) == r.k = "none"

Some(r, path) == [r EXCEPT !.k = "ok", !.p = path]

None(r) == [r EXCEPT !.k = "none"]

Err(r, e, a, b) == [r EXCEPT !.k = "err", !.e = e, !.a = a, !.b = b]

\* ResolveError::Ignored is raised
Ignored(r, path) == [Err(r, "Ignored", path, "") EXCEPT !.ignored = TRUE]

\* ResolveError::is_ignore
is_ignore(r) == r.k = "err" /\ r.e = "Ignored"

\* `if let Ok(..) = ..`: the error of the attempt is dropped
if_let_Ok(r) == IF r.k = "err" THEN None(r) ELSE r

\* ok_or(ResolveError::NotFound(..)) in place of the error at hand
ok_or_not_found(r, e, a, b) == IF undecided(r) THEN Err(r, "NotFound", a, b) ELSE r

\* Option::ok_or on a Result<Option<..>>
ok_or(r, e, a, b) == IF undecided(r) THEN Err(r, e, a, b) ELSE r

note(r, event) == [r EXCEPT !.log = Append(@, event)]

\* Ctx::add_file_dependency
add_file_dependency(r, path) ==
    IF r.ctx.track THEN [r EXCEPT !.ctx.file_dependencies = @ \cup {path}] ELSE r

\* Ctx::add_missing_dependency
add_missing_dependency(r, path) ==
    IF r.ctx.track THEN [r EXCEPT !.ctx.missing_dependencies = @ \cup {path}] ELSE r

\* CachedPathImpl::meta on an unchanging file system
meta(cp) == fs_metadata(fs, cp)

\* the existence of the path was consulted during the call
consult(r, path) == [r EXCEPT !.consulted = @ \cup {path}]

\* CachedPathImpl::is_file, its result and its effect on the Ctx
is_file(cp) == meta(cp) = "file"

after_is_file(r, cp) ==
    IF meta(cp) = "none" THEN add_missing_dependency(consult(r, cp), cp)
    ELSE add_file_dependency(consult(r, cp), cp)

\* CachedPathImpl::is_dir, its result and its effect on the Ctx
is_dir(cp) == meta(cp) = "dir"

after_is_dir(r, cp) ==
    IF meta(cp) = "none" THEN add_missing_dependency(consult(r, cp), cp) ELSE consult(r, cp)

\* the last component of a path: path.strip_prefix(parent.path)
last_component(cs) == IF cs = <<>> THEN "" ELSE cs[Len(cs)]

\* the realpath of a node from the realpath of its parent
realpath_under(parent_path, cp) ==
    IF parent_path = NoPath THEN NoPath
    ELSE normalize_with(parent_path, last_component(components(cp)))

RECURSIVE realpath(_)
\* CachedPathImpl::realpath: NoPath stands for the io::Error
realpath(cp) ==
    IF fs_is_symlink(fs, cp) THEN fs_canonicalize(fs, cp)
    ELSE IF parent(cp) = NoPath THEN cp
    ELSE realpath_under(realpath(parent(cp)), cp)

\* PackageJson::parse for the directory cp
parsed_package_json(o, cp) ==
    [found |-> TRUE, path |-> join(cp, "package.json"),
     realpath |-> IF o.symlinks THEN join(realpath(cp), "package.json")
                  ELSE join(cp, "package.json"),
     json |-> fs_read(fs, join(cp, "package.json"))]

\* PackageJson::directory
directory(pkg) == parent(pkg.realpath)

\* Ctx::with_fully_specified
with_fully_specified(r, yes) == [r EXCEPT !.ctx.fully_specified = yes]

\* Ctx::with_resolving_alias
with_resolving_alias(r, alias) == [r EXCEPT !.ctx.resolving_alias = alias]

\* an event of the call, for the properties that speak of its course: id is
\* the position in the log of the event that opened the operation at hand
event(ev, id, a, b) == [ev |-> ev, id |-> id, a |-> a, b |-> b]

\* the id the next operation to open gets
next_id(r) == Len(r.log) + 1

\* the event that closes operation id with the result r
closing(r, ev, id) ==
    note(r, event(ev, id, r.k, IF r.k = "err" THEN r.e ELSE IF r.k = "ok" THEN r.p ELSE ""))

\* a yes or no in an event
flag(yes) == IF yes THEN "yes" ELSE "no"

\* a call of the engine function named f
Call(f, o, r, args) == [f |-> f, o |-> o, r |-> r, args |-> args]

\* the future of a call on the stack: returned holds the calls the engine
\* function awaited so far, each with its result
Future(call) == [call |-> call, returned |-> <<>>]

\* the engine function at hand waits for the call to return
Pending(r, call) == [r EXCEPT !.k = "pending", !.awaited = <<call>>]

\* the result of the call when it is among the calls that returned
poll_ready(found, r, call) == IF found = <<>> THEN Pending(r, call) ELSE found[1].result

poll_call(r, call) ==
    poll_ready(SelectSeq(stack[Len(stack)].returned, LAMBDA x : x.call = call), r, call)

\* the engine functions call each other through their futures: await(f, ..)
\* is the call of the engine function named f by the function on top of the
\* stack.  A decided r is the early return of every engine function
await(f, o, r, args) ==
    IF ~undecided(r) THEN r ELSE poll_call(r, Call(f, o, r, args))

\* CachedPathImpl::package_json: r.pkg is the package.json of directory cp,
\* NoPackage when it has none
package_json(o, r, cp) ==
    IF ~undecided(r) THEN r
    ELSE IF ~fs_readable(fs, join(cp, "package.json"))
    THEN [add_missing_dependency(consult(r, join(cp, "package.json")),
                                 join(cp, "package.json")) EXCEPT !.pkg = NoPackage]
    ELSE IF o.symlinks /\ realpath(cp) = NoPath
    THEN Err(add_file_dependency(consult(r, join(cp, "package.json")),
                                 join(cp, "package.json")), "IOError", cp, "")
    ELSE IF fs_read(fs, join(cp, "package.json")).t = "invalid"
    THEN Err(add_file_dependency(consult(r, join(cp, "package.json")),
                                 join(cp, "package.json")), "JSON",
             join(cp, "package.json"), "")
    ELSE [add_file_dependency(consult(r, join(cp, "package.json")),
                              join(cp, "package.json")) EXCEPT
             !.pkg = parsed_package_json(o, cp)]

\* find_package_json, the second loop: the package.json of cp or of its
\* nearest ancestor that has one
find_package_json_up(o, r, cp) ==
    IF ~undecided(r) \/ r.pkg.found \/ cp = NoPath THEN r
    ELSE await("find_package_json_up", o, await("package_json", o, r, <<cp>>),
               <<parent(cp)>>)

\* CachedPathImpl::find_package_json, the first loop goes up to a directory
find_package_json(o, r, cp) ==
    IF ~undecided(r) THEN r
    ELSE IF ~is_dir(cp) /\ parent(cp) # NoPath
    THEN await("find_package_json", o, after_is_dir(r, cp), <<parent(cp)>>)
    ELSE await("find_package_json_up", o, [after_is_dir(r, cp) EXCEPT !.pkg = NoPackage],
               <<cp>>)

\* is_inside of check_restrictions
is_inside(path, dir) ==
    /\ path_starts_with(path, dir)
    /\ \/ Len(path) = Len(dir)
       \/ SubSeq(components(path), Len(components(dir)) + 1, Len(components(path))) = <<".">>

\* one Restriction: Path(dir), or Fn(f) for the predicates f that test the
\* end of the path
check_restriction(restriction, path) ==
    IF restriction.t = "path" THEN is_inside(path, restriction.v)
    ELSE ends_with(path, restriction.v)

RECURSIVE check_restrictions_from(_, _)
check_restrictions_from(restrictions, path) ==
    \/ restrictions = <<>>
    \/ /\ check_restriction(Head(restrictions), path)
       /\ check_restrictions_from(Tail(restrictions), path)

\* restrictions that accept every path
check_restrictions_never(o, path) == TRUE

\* ResolverGeneric::check_restrictions
check_restrictions(o, path) == check_restrictions_from(o.restrictions, path)

RECURSIVE get_value_in(_, _)
get_value_in(found, keys) ==
    IF Len(found) = 0 \/ keys = <<>> THEN found
    ELSE get_value_in(json_get(found[1], Head(keys)), Tail(keys))

\* PackageJson::get_value_by_paths: <<>> for None
get_value_by_paths(json, keys) ==
    IF keys = <<>> THEN <<>> ELSE get_value_in(json_get(json, Head(keys)), Tail(keys))

\* filter_map of a field value: as_object keeps the objects only
field_value(found, as_object) ==
    IF Len(found) = 1 /\ as_object /\ found[1].t # "obj" THEN <<>> ELSE found

RECURSIVE json_fields(_, _, _)
\* the values of the fields of the description file named by object paths
json_fields(json, fields, as_object) ==
    IF fields = <<>> THEN <<>>
    ELSE field_value(get_value_by_paths(json, Head(fields)), as_object)
         \o json_fields(json, Tail(fields), as_object)

\* get_str of one field
string_value(found) == IF Len(found) = 1 /\ found[1].t = "str" THEN <<found[1].v>> ELSE <<>>

RECURSIVE main_fields(_, _)
\* PackageJson::main_fields
main_fields(pkg, fields) ==
    IF fields = <<>> THEN <<>>
    ELSE string_value(json_get(pkg.json, Head(fields))) \o main_fields(pkg, Tail(fields))

\* PackageJson::exports_fields
exports_fields(pkg, fields) == json_fields(pkg.json, fields, FALSE)

\* PackageJson::imports_fields
imports_fields(pkg, fields) == json_fields(pkg.json, fields, TRUE)

\* PackageJson::browser_fields
browser_fields(pkg, fields) == json_fields(pkg.json, fields, TRUE)

\* PackageJson::name
package_name_of(pkg) == string_value(json_get(pkg.json, "name"))

\* PackageJson::alias_value: Ok(Some(value)), Err(Ignored(key)) or Ok(None)
alias_value(key, value) ==
    IF value.t = "str" THEN [t |-> "some", v |-> value.v]
    ELSE IF value.t = "bool" /\ value.v = FALSE THEN [t |-> "ignored", v |-> key]
    ELSE [t |-> "none", v |-> ""]

RECURSIVE members_at(_, _, _)
\* the value of the first key of a browser object that names the path
members_at(members, dir, path) ==
    IF members = <<>> THEN <<>>
    ELSE IF key_of(normalize_with(dir, Head(members)[1])) = key_of(path)
    THEN <<Head(members)[2]>>
    ELSE members_at(Tail(members), dir, path)

RECURSIVE resolve_browser_field_in(_, _, _, _)
browser_value(found, objects, dir, path, req) ==
    IF Len(found) = 0 THEN resolve_browser_field_in(Tail(objects), dir, path, req)
    ELSE alias_value(path, found[1])

resolve_browser_field_in(objects, dir, path, req) ==
    IF objects = <<>> THEN [t |-> "none", v |-> ""]
    ELSE browser_value(IF req = NoPath THEN members_at(Head(objects).v, dir, path)
                       ELSE members_get(Head(objects).v, req),
                       objects, dir, path, req)

\* PackageJson::resolve_browser_field; req is NoPath for None
resolve_browser_field(pkg, path, req, alias_fields) ==
    resolve_browser_field_in(browser_fields(pkg, alias_fields), parent(pkg.path), path, req)

\* Path::ends_with
path_ends_with(p, child) ==
    /\ Len(components(child)) <= Len(components(p))
    /\ SubSeq(components(p), Len(components(p)) - Len(components(child)) + 1,
              Len(components(p))) = components(child)

\* load_browser_field once the browser field gave found
browser_redirect(o, r, cp, module_specifier, found) ==
    IF found.t = "ignored" THEN Ignored(r, found.v)
    ELSE IF found.t = "none" THEN r
    ELSE IF module_specifier = found.v THEN r
    ELSE IF r.ctx.resolving_alias = found.v
    THEN IF starts_with(found.v, "./") /\ path_ends_with(cp, Drop(found.v, 2))
         THEN IF ~is_file(cp) THEN Err(after_is_file(r, cp), "NotFound", found.v, "")
              ELSE IF check_restrictions(o, cp) THEN Some(after_is_file(r, cp), cp)
              ELSE after_is_file(r, cp)
         ELSE Err(r, "Recursion", "", "")
    ELSE await("require", o, with_fully_specified(with_resolving_alias(r, found.v), FALSE),
               <<directory(r.pkg), found.v>>)

\* ResolverGeneric::load_browser_field for the package.json r.pkg
load_browser_field(o, r, cp, module_specifier) ==
    IF ~undecided(r) \/ ~r.pkg.found THEN r
    ELSE browser_redirect(o, r, cp, module_specifier,
                          resolve_browser_field(r.pkg, cp, module_specifier, o.alias_fields))

\* SLASH_START
is_slash(c) == c \in {"/", "\\"}

RECURSIVE trim_slashes(_)
\* str::trim_start_matches(SLASH_START)
trim_slashes(s) == IF s # "" /\ is_slash(Char(s, 1)) THEN trim_slashes(Drop(s, 1)) ELSE s

\* ResolverGeneric::strip_package_name: the tail, NoPath for None
strip_package_name(specifier, package_name) ==
    IF ~starts_with(specifier, package_name) THEN NoPath
    ELSE IF Len(specifier) = Len(package_name) THEN ""
    ELSE IF is_slash(Char(specifier, Len(package_name) + 1))
    THEN Drop(specifier, Len(package_name))
    ELSE NoPath

\* the alias key of load_alias that matches the specifier, NoPath when the
\* entry is skipped
alias_key_of(alias_key_raw, specifier) ==
    IF ends_with(alias_key_raw, "$")
    THEN IF Take(alias_key_raw, Len(alias_key_raw) - 1) = specifier THEN specifier ELSE NoPath
    ELSE IF strip_package_name(specifier, alias_key_raw) = NoPath THEN NoPath
    ELSE alias_key_raw

\* an AliasValue
AliasPath(v) == [t |-> "path", v |-> v]

AliasIgnore == [t |-> "ignore", v |-> ""]

\* the new specifier of load_alias_value: the alias value and the tail of
\* the request behind the alias key
new_specifier(alias_value_, tail) ==
    IF tail = "" \/ trim_slashes(tail) = "" THEN alias_value_
    ELSE normalize_with(normalize(alias_value_), trim_slashes(tail))

\* the match on the result of require in load_alias_value
alias_value_result(r) ==
    IF r.k = "err" /\ r.e \in {"NotFound", "MatchedAliasNotFound"}
    THEN None([r EXCEPT !.should_stop = TRUE])
    ELSE [r EXCEPT !.should_stop = TRUE]

\* ResolverGeneric::load_alias_value; r.should_stop is *should_stop
load_alias_value(o, r, cp, alias_key, alias_value_, req) ==
    IF ~undecided(r) THEN r
    ELSE IF req = alias_value_
            \/ (starts_with(req, alias_value_)
                /\ starts_with(Drop(req, Len(alias_value_)), "/"))
    THEN r
    ELSE IF Len(req) > Len(alias_key) /\ is_file(normalize(alias_value_))
    THEN after_is_file(r, normalize(alias_value_))
    ELSE alias_value_result(
            await("require", o,
                  with_fully_specified(
                      [note(IF Len(req) > Len(alias_key)
                            THEN after_is_file(r, normalize(alias_value_)) ELSE r,
                            event("alias_value", next_id(r), alias_value_,
                                  new_specifier(alias_value_, Drop(req, Len(alias_key)))))
                       EXCEPT !.should_stop = TRUE], FALSE),
                  <<cp, new_specifier(alias_value_, Drop(req, Len(alias_key)))>>))

\* load_alias, the loop over the values of the alias key that matched
load_alias_values(o, r, cp, alias_key, values, specifier) ==
    IF ~undecided(r) \/ values = <<>> THEN r
    ELSE IF Head(values).t = "ignore" THEN Ignored(r, normalize_with(cp, alias_key))
    ELSE await("load_alias_values", o,
               await("load_alias_value", o, r, <<cp, alias_key, Head(values).v, specifier>>),
               <<cp, alias_key, Tail(values), specifier>>)

\* load_alias, after the values of the alias key: the key that was opened as
\* id closes with whether a value was tried and with what load_alias does next
alias_key_done(r, id, alias_key, specifier, stop) ==
    IF undecided(r) /\ stop
    THEN note(Err(r, "MatchedAliasNotFound", specifier, alias_key),
              event("alias_key_done", id, flag(stop), "MatchedAliasNotFound"))
    ELSE note(r, event("alias_key_done", id, flag(stop),
                       IF r.k = "err" THEN r.e ELSE r.k))

\* load_alias without its should_stop: no key ever stops the loop
alias_key_tried_never(r, id, alias_key, specifier) ==
    alias_key_done(r, id, alias_key, specifier, FALSE)

alias_key_tried(r, id, alias_key, specifier) ==
    alias_key_done(r, id, alias_key, specifier, r.should_stop)

\* load_alias, the loop over the entries whose key matches the specifier
load_alias_each(o, r, cp, specifier, aliases) ==
    IF ~undecided(r) \/ aliases = <<>> THEN r
    ELSE await("load_alias_each", o,
               alias_key_tried(
                   await("load_alias_values", o,
                         [note(r, event("alias_key", next_id(r), Head(aliases)[1], specifier))
                          EXCEPT !.should_stop = FALSE],
                         <<cp, alias_key_of(Head(aliases)[1], specifier),
                           Head(aliases)[2], specifier>>),
                   next_id(r), alias_key_of(Head(aliases)[1], specifier), specifier),
               <<cp, specifier, Tail(aliases)>>)

\* ResolverGeneric::load_alias: the loop does `continue` on the entries whose
\* key does not match the specifier
load_alias(o, r, cp, specifier, aliases) ==
    IF ~undecided(r) THEN r
    ELSE load_alias_each(o, r, cp, specifier,
            SelectSeq(aliases, LAMBDA entry : alias_key_of(entry[1], specifier) # NoPath))

\* load_alias_or_file, the last step: the path itself when it is a file that
\* passes the restrictions
load_file(o, r, cp) ==
    IF ~undecided(r) THEN r
    ELSE IF is_file(cp) /\ check_restrictions(o, cp) THEN Some(after_is_file(r, cp), cp)
    ELSE after_is_file(r, cp)

\* ResolverGeneric::load_alias_or_file
load_alias_or_file(o, r, cp) ==
    IF ~undecided(r) THEN r
    ELSE load_file(o,
            await("load_alias", o,
                  (IF o.alias_fields = <<>> THEN r
                   ELSE await("load_browser_field", o, await("find_package_json", o, r, <<cp>>),
                              <<cp, NoPath>>)),
                  <<cp, cp, o.alias>>),
            cp)

RECURSIVE extension_alias_of(_, _)
\* the substitutes of the first key of extension_alias that is the extension:
\* <<>> for None, else the one-element sequence of the list
extension_alias_of(extension_alias, path_extension) ==
    IF extension_alias = <<>> THEN <<>>
    ELSE IF trim_start_matches(Head(extension_alias)[1], ".") = path_extension
    THEN <<Head(extension_alias)[2]>>
    ELSE extension_alias_of(Tail(extension_alias), path_extension)

RECURSIVE alias_files(_, _)
\* the file names in the message of ExtensionAlias
alias_files(stem, extensions) ==
    IF extensions = <<>> THEN ""
    ELSE IF Len(extensions) = 1 THEN stem \o extensions[1]
    ELSE stem \o extensions[1] \o "," \o alias_files(stem, Tail(extensions))

\* load_extension_alias with a loop that ends after the first substitute
load_extension_alias_first(o, r, path_without_extension, extensions) ==
    IF ~undecided(r) \/ extensions = <<>> THEN r
    ELSE await("load_alias_or_file", o, r, <<path_without_extension \o Head(extensions)>>)

\* load_extension_alias, the loop over the substitutes
load_extension_alias_each(o, r, path_without_extension, extensions) ==
    IF ~undecided(r) \/ extensions = <<>> THEN r
    ELSE await("load_extension_alias_each", o,
               await("load_alias_or_file", o, r,
                     <<path_without_extension \o Head(extensions)>>),
               <<path_without_extension, Tail(extensions)>>)

\* load_extension_alias without the bail on a candidate that is no file
extension_alias_exhausted(o, r, cp, extensions, id) ==
    IF r.k = "ok" THEN closing(with_fully_specified(r, FALSE), "extension_alias_done", id)
    ELSE IF ~undecided(r) THEN closing(r, "extension_alias_done", id)
    ELSE closing(Err(after_is_file(r, cp), "ExtensionAlias", file_name(cp),
                     alias_files(without_extension(file_name(cp)), extensions)),
                 "extension_alias_done", id)

\* load_extension_alias, after the loop: the alias that was opened as id
\* closes with the result
extension_alias_done(o, r, cp, extensions, id) ==
    IF r.k = "ok" THEN closing(with_fully_specified(r, FALSE), "extension_alias_done", id)
    ELSE IF ~undecided(r) THEN closing(r, "extension_alias_done", id)
    ELSE IF ~is_file(cp) \/ ~check_restrictions(o, cp)
    THEN closing(with_fully_specified(after_is_file(r, cp), FALSE), "extension_alias_done", id)
    ELSE closing(Err(after_is_file(r, cp), "ExtensionAlias", file_name(cp),
                     alias_files(without_extension(file_name(cp)), extensions)),
                 "extension_alias_done", id)

\* ResolverGeneric::load_extension_alias
load_extension_alias(o, r, cp) ==
    IF ~undecided(r) \/ o.extension_alias = <<>> \/ extension(cp) = NoPath THEN r
    ELSE IF extension_alias_of(o.extension_alias, extension(cp)) = <<>> THEN r
    ELSE extension_alias_done(o,
            await("load_extension_alias_each", o,
                  with_fully_specified(
                      note(r, event("extension_alias", next_id(r), cp, flag(is_file(cp)))), TRUE),
                  <<without_extension(cp),
                    extension_alias_of(o.extension_alias, extension(cp))[1]>>),
            cp, extension_alias_of(o.extension_alias, extension(cp))[1], next_id(r))

\* load_extensions with a loop from the last extension to the first
load_extensions_reversed(o, r, cp, extensions) ==
    IF ~undecided(r) \/ extensions = <<>> THEN r
    ELSE await("load_alias_or_file", o,
               await("load_extensions_each", o, r, <<cp, Tail(extensions)>>),
               <<cp \o Head(extensions)>>)

\* load_extensions, the loop
load_extensions_each(o, r, cp, extensions) ==
    IF ~undecided(r) \/ extensions = <<>> THEN r
    ELSE await("load_extensions_each", o,
               await("load_alias_or_file", o, r, <<cp \o Head(extensions)>>),
               <<cp, Tail(extensions)>>)

\* ResolverGeneric::load_extensions
load_extensions(o, r, cp, extensions) ==
    IF ~undecided(r) \/ r.ctx.fully_specified THEN r
    ELSE await("load_extensions_each", o, r, <<cp, extensions>>)

\* load_as_file, the candidate as it is and then with the extensions
load_as_file_from(o, r, cp) ==
    IF o.enforce_extension
    THEN await("load_extensions", o, await("load_extension_alias", o, r, <<cp>>),
               <<cp, o.extensions>>)
    ELSE await("load_extensions", o,
               await("load_alias_or_file", o, await("load_extension_alias", o, r, <<cp>>),
                     <<cp>>),
               <<cp, o.extensions>>)

\* ResolverGeneric::load_as_file
load_as_file(o, r, cp) ==
    IF ~undecided(r) THEN r
    ELSE closing(load_as_file_from(o,
                     note(r, event("load_as_file", next_id(r), cp,
                                   flag(r.ctx.fully_specified))),
                     cp),
                 "load_as_file_done", next_id(r))

\* load_index: a path that fails the restrictions is not returned
restricted(o, r) == IF r.k = "ok" /\ ~check_restrictions(o, r.p) THEN None(r) ELSE r

\* load_index for one main file
load_index_file(o, r, main_path) ==
    IF ~undecided(r) THEN r
    ELSE IF o.enforce_extension
    THEN await("load_extensions", o, r, <<main_path, o.extensions>>)
    ELSE await("load_extensions", o,
               restricted(o, await("load_alias_or_file", o, r, <<main_path>>)),
               <<main_path, o.extensions>>)

\* load_index, the loop over main_files
load_index_each(o, r, cp, main_files) ==
    IF ~undecided(r) \/ main_files = <<>> THEN r
    ELSE await("load_index_each", o,
               load_index_file(o, r, normalize_with(cp, Head(main_files))),
               <<cp, Tail(main_files)>>)

\* ResolverGeneric::load_index
load_index(o, r, cp) == await("load_index_each", o, r, <<cp, o.main_files>>)

\* the main field as load_as_directory completes it
main_field_of(main_field) ==
    IF starts_with(main_field, "./") \/ starts_with(main_field, "../") THEN main_field
    ELSE "./" \o main_field

\* load_as_directory for one main field
load_main_field(o, r, main_field_path) ==
    IF ~undecided(r) THEN r
    ELSE await("load_index", o,
               if_let_Ok(await("load_as_file", o, r, <<main_field_path>>)),
               <<main_field_path>>)

\* load_as_directory, the loop over the main fields
load_main_fields(o, r, cp, fields) ==
    IF ~undecided(r) \/ fields = <<>> THEN r
    ELSE await("load_main_fields", o,
               load_main_field(o, r, normalize_with(cp, main_field_of(Head(fields)))),
               <<cp, Tail(fields)>>)

\* load_as_directory once the package.json of the directory is r.pkg
load_package_main(o, r, cp) ==
    IF ~undecided(r) \/ ~r.pkg.found THEN r
    ELSE await("load_main_fields", o, r, <<cp, main_fields(r.pkg, o.main_fields)>>)

\* ResolverGeneric::load_as_directory
load_as_directory(o, r, cp) ==
    IF ~undecided(r) THEN r
    ELSE IF o.description_files = <<>> THEN await("load_index", o, r, <<cp>>)
    ELSE await("load_index", o,
               load_package_main(o, await("package_json", o, r, <<cp>>), cp), <<cp>>)

\* load_as_file_or_directory, the directory
load_directory(o, r, cp) ==
    IF ~undecided(r) THEN r
    ELSE IF is_dir(cp) THEN await("load_as_directory", o, after_is_dir(r, cp), <<cp>>)
    ELSE after_is_dir(r, cp)

\* ResolverGeneric::load_as_file_or_directory
load_as_file_or_directory(o, r, cp, specifier) ==
    IF ~undecided(r) THEN r
    ELSE IF o.resolve_to_context
    THEN IF is_dir(cp) THEN Some(after_is_dir(r, cp), cp) ELSE after_is_dir(r, cp)
    ELSE IF ends_with(specifier, "/") THEN load_directory(o, r, cp)
    ELSE load_directory(o, await("load_as_file", o, r, <<cp>>), cp)

\* the call does not return: it recurses without end, or it panics
Diverged(r) == [r EXCEPT !.k = "diverged"]

Panic(r) == [r EXCEPT !.k = "panic"]

TEMPLATE_VARIABLE == "${configDir}"

RECURSIVE strings_of(_)
\* the strings of an array of strings
strings_of(items) ==
    IF items = <<>> THEN <<>> ELSE <<Head(items).v>> \o strings_of(Tail(items))

\* TsConfig::parse_extends of the field found
parse_extends(found) ==
    IF Len(found) = 0 THEN <<>>
    ELSE IF found[1].t = "str" THEN <<found[1].v>>
    ELSE IF found[1].t = "arr" THEN strings_of(found[1].v)
    ELSE <<>>

RECURSIVE parse_paths(_)
\* TsConfig::parse_compiler_options, the paths map
parse_paths(members) ==
    IF members = <<>> THEN <<>>
    ELSE <<<<Head(members)[1], strings_of(Head(members)[2].v)>>>> \o parse_paths(Tail(members))

RECURSIVE parse_references(_)
\* TsConfig::parse_references
parse_references(items) ==
    IF items = <<>> THEN <<>>
    ELSE <<[path |-> json_get(Head(items), "path")[1].v, tsconfig |-> <<>>]>>
         \o parse_references(Tail(items))

\* the field of compilerOptions found, <<>> for None
compiler_option(json, key) ==
    IF Len(json_get(json, "compilerOptions")) = 0 THEN <<>>
    ELSE json_get(json_get(json, "compilerOptions")[1], key)

\* CompilerOptions::base_url as TsConfig::parse leaves it
parsed_base_url(dir, found) ==
    IF Len(found) = 0 THEN NoPath
    ELSE IF path_starts_with(found[1].v, TEMPLATE_VARIABLE) THEN found[1].v
    ELSE normalize_with(dir, found[1].v)

\* TsConfig::parse of a description that is a JSON object with fields of the
\* types of a tsconfig
parse_tsconfig(root, path, json) ==
    [root |-> root, path |-> path,
     extends |-> parse_extends(json_get(json, "extends")),
     base_url |-> parsed_base_url(parent(path), compiler_option(json, "baseUrl")),
     has_paths |-> Len(compiler_option(json, "paths")) = 1,
     paths |-> IF Len(compiler_option(json, "paths")) = 1
               THEN parse_paths(compiler_option(json, "paths")[1].v) ELSE <<>>,
     paths_base |-> IF Len(compiler_option(json, "paths")) = 0 THEN ""
                    ELSE IF Len(compiler_option(json, "baseUrl")) = 0 THEN parent(path)
                    ELSE parsed_base_url(parent(path), compiler_option(json, "baseUrl")),
     references |-> IF Len(json_get(json, "references")) = 0 THEN <<>>
                    ELSE parse_references(json_get(json, "references")[1].v)]

\* TsConfig::directory
tsconfig_directory(tsconfig) == parent(tsconfig.path)

\* TsConfig::substitute_template_variable
substitute_template_variable(dir, path) ==
    IF ~starts_with(path, TEMPLATE_VARIABLE) THEN path
    ELSE IF starts_with(Drop(path, Len(TEMPLATE_VARIABLE)), "/")
    THEN join(dir, Drop(path, Len(TEMPLATE_VARIABLE) + 1))
    ELSE join(dir, Drop(path, Len(TEMPLATE_VARIABLE)))

RECURSIVE substitute_each(_, _)
substitute_each(dir, targets) ==
    IF targets = <<>> THEN <<>>
    ELSE <<substitute_template_variable(dir, Head(targets))>>
         \o substitute_each(dir, Tail(targets))

RECURSIVE substitute_paths(_, _)
substitute_paths(dir, paths_map) ==
    IF paths_map = <<>> THEN <<>>
    ELSE <<<<Head(paths_map)[1], substitute_each(dir, Head(paths_map)[2])>>>>
         \o substitute_paths(dir, Tail(paths_map))

\* TsConfig::build
build(tsconfig) ==
    IF ~tsconfig.root THEN tsconfig
    ELSE [tsconfig EXCEPT
            !.paths = substitute_paths(tsconfig_directory(tsconfig), @),
            !.paths_base = substitute_template_variable(tsconfig_directory(tsconfig), @),
            !.base_url = IF @ = NoPath THEN @
                         ELSE substitute_template_variable(tsconfig_directory(tsconfig), @)]

\* TsConfig::extend_tsconfig
extend_tsconfig(tsconfig, other_config) ==
    [tsconfig EXCEPT
        !.paths_base = IF tsconfig.has_paths THEN @
                       ELSE IF tsconfig.base_url = NoPath THEN other_config.paths_base
                       ELSE tsconfig.base_url,
        !.paths = IF tsconfig.has_paths THEN @ ELSE other_config.paths,
        !.has_paths = IF tsconfig.has_paths THEN @ ELSE other_config.has_paths,
        !.base_url = IF @ = NoPath THEN other_config.base_url ELSE @]

\* TsConfig::base_path
base_path(tsconfig) ==
    IF tsconfig.base_url = NoPath THEN tsconfig_directory(tsconfig) ELSE tsconfig.base_url

RECURSIVE paths_get(_, _)
\* IndexMap::get on the paths map: <<>> for None
paths_get(paths_map, key) ==
    IF paths_map = <<>> THEN <<>>
    ELSE IF Head(paths_map)[1] = key THEN <<Head(paths_map)[2]>>
    ELSE paths_get(Tail(paths_map), key)

RECURSIVE best_key(_, _, _)
\* resolve_path_alias, the loop over the keys with a "*": best is <<>> or the
\* key chosen so far
best_key(paths_map, specifier, best) ==
    IF paths_map = <<>> THEN best
    ELSE IF /\ contains(Head(paths_map)[1], "*")
            /\ \/ Len(best) = 0
               \/ position(Head(paths_map)[1], "*") - 1 > position(best[1], "*") - 1
            /\ starts_with(specifier, Take(Head(paths_map)[1],
                                           position(Head(paths_map)[1], "*") - 1))
            /\ ends_with(specifier, Drop(Head(paths_map)[1], position(Head(paths_map)[1], "*")))
    THEN best_key(Tail(paths_map), specifier, <<Head(paths_map)[1]>>)
    ELSE best_key(Tail(paths_map), specifier, best)

RECURSIVE replace_each(_, _)
replace_each(targets, by) ==
    IF targets = <<>> THEN <<>>
    ELSE <<replace(Head(targets), "*", by)>> \o replace_each(Tail(targets), by)

RECURSIVE normalize_each(_, _)
normalize_each(base, targets) ==
    IF targets = <<>> THEN <<>>
    ELSE <<normalize_with(base, Head(targets))>> \o normalize_each(base, Tail(targets))

\* the paths of a specifier: panic tells that the slice of the specifier
\* between prefix and suffix does not exist
Paths(targets) == [panic |-> FALSE, paths |-> targets]

\* resolve_path_alias for the best key found
paths_of_key(tsconfig, specifier, best, base_url_iter) ==
    IF Len(best) = 0 THEN Paths(base_url_iter)
    ELSE IF paths_get(tsconfig.paths, best[1])[1] # <<>> /\ Len(best[1]) - 1 > Len(specifier)
    THEN [panic |-> TRUE, paths |-> <<>>]
    ELSE Paths(normalize_each(tsconfig.paths_base,
                   replace_each(paths_get(tsconfig.paths, best[1])[1],
                                SubSeq(specifier, position(best[1], "*"),
                                       Len(specifier) - (Len(best[1]) - position(best[1], "*")))))
               \o base_url_iter)

\* resolve_path_alias with the base_url candidate at hand
paths_of(tsconfig, specifier, base_url_iter) ==
    IF ~tsconfig.has_paths THEN Paths(base_url_iter)
    ELSE IF Len(paths_get(tsconfig.paths, specifier)) = 1
    THEN Paths(normalize_each(tsconfig.paths_base, paths_get(tsconfig.paths, specifier)[1])
               \o base_url_iter)
    ELSE paths_of_key(tsconfig, specifier, best_key(tsconfig.paths, specifier, <<>>),
                      base_url_iter)

\* TsConfig::resolve_path_alias
resolve_path_alias(tsconfig, specifier) ==
    IF starts_with(specifier, "/") \/ starts_with(specifier, ".") THEN Paths(<<>>)
    ELSE paths_of(tsconfig, specifier,
                  IF tsconfig.base_url = NoPath THEN <<>>
                  ELSE <<normalize_with(tsconfig.base_url, specifier)>>)

RECURSIVE resolve_in(_, _, _, _)
\* TsConfig::resolve, the loop over the references that hold a tsconfig
resolve_in(tsconfig, references, path, specifier) ==
    IF references = <<>> THEN resolve_path_alias(tsconfig, specifier)
    ELSE IF Len(Head(references).tsconfig) = 1
            /\ path_starts_with(path, base_path(Head(references).tsconfig[1]))
    THEN resolve_path_alias(Head(references).tsconfig[1], specifier)
    ELSE resolve_in(tsconfig, Tail(references), path, specifier)

\* TsConfig::resolve
tsconfig_resolve(tsconfig, path, specifier) ==
    resolve_in(tsconfig, tsconfig.references, path, specifier)

\* TsconfigReferences
ReferencesDisabled == [t |-> "disabled", v |-> <<>>]

ReferencesAuto == [t |-> "auto", v |-> <<>>]

ReferencesPaths(reference_paths) == [t |-> "paths", v |-> reference_paths]

\* Cache::tsconfig up to its callback: r.ts is the tsconfig parsed
read_tsconfig(r, root, path) ==
    IF ~undecided(r) THEN r
    ELSE IF ~fs_readable(fs, tsconfig_path(path, meta(path))) THEN Err(r, "TsconfigNotFound", path, "")
    ELSE IF fs_read(fs, tsconfig_path(path, meta(path))).t # "obj"
    THEN Err(r, "JSON", tsconfig_path(path, meta(path)), "")
    ELSE [r EXCEPT !.ts = parse_tsconfig(root, tsconfig_path(path, meta(path)),
                                         fs_read(fs, tsconfig_path(path, meta(path))))]

\* Cache::tsconfig after its callback
built(r) == IF ~undecided(r) THEN r ELSE [r EXCEPT !.ts = build(@)]

\* the options of the resolver that get_extended_tsconfig_path clones
ExtendsOptions ==
    [DefaultOptions EXCEPT !.description_files = <<>>, !.extensions = <<".json">>,
                           !.main_files = <<"tsconfig.json">>]

\* the Ctx of the caller is in use again
restore_ctx(r, ctx) == [r EXCEPT !.ctx = ctx]

\* map_err of get_extended_tsconfig_path
tsconfig_not_found(r, specifier) ==
    IF r.k = "err" /\ r.e = "NotFound" THEN Err(r, "TsconfigNotFound", specifier, "") ELSE r

\* ResolverGeneric::get_extended_tsconfig_path
get_extended_tsconfig_path(o, r, tsconfig, specifier) ==
    IF ~undecided(r) THEN r
    ELSE IF specifier = "" THEN Err(r, "Specifier", "Empty", specifier)
    ELSE IF Char(specifier, 1) = "/" THEN Some(r, specifier)
    ELSE IF Char(specifier, 1) = "."
    THEN Some(r, normalize_with(tsconfig_directory(tsconfig), specifier))
    ELSE tsconfig_not_found(
            restore_ctx(await("load_package_self_or_node_modules", ExtendsOptions,
                              [r EXCEPT !.ctx = DefaultCtx],
                              <<tsconfig_directory(tsconfig), specifier>>),
                        r.ctx),
            specifier)

\* a path was found and is not the result of the call
taken(r) == IF r.k = "ok" THEN None(r) ELSE r

\* load_tsconfig: the paths of all the extended tsconfigs are found first
extended_tsconfig_paths(o, r, tsconfig, specifiers) ==
    IF ~undecided(r) \/ specifiers = <<>> THEN r
    ELSE await("extended_tsconfig_paths", o,
               taken(get_extended_tsconfig_path(o, r, tsconfig, Head(specifiers))),
               <<tsconfig, Tail(specifiers)>>)

\* load_tsconfig of the extended tsconfig whose path is r.p
load_extended(o, r, visiting) ==
    IF r.k # "ok" THEN r
    ELSE await("load_tsconfig", o, None(r), <<FALSE, r.p, ReferencesDisabled, visiting>>)

\* load_tsconfig, the loop that extends tsconfig by the tsconfigs it names
extend_each(o, r, tsconfig, specifiers, visiting) ==
    IF ~undecided(r) THEN r
    ELSE IF specifiers = <<>> THEN [r EXCEPT !.ts = tsconfig]
    ELSE await("extend_with", o,
               load_extended(o, get_extended_tsconfig_path(o, r, tsconfig, Head(specifiers)),
                             visiting),
               <<tsconfig, Tail(specifiers), visiting>>)

extend_with(o, r, tsconfig, specifiers, visiting) ==
    IF ~undecided(r) THEN r
    ELSE await("extend_each", o, r, <<extend_tsconfig(tsconfig, r.ts), specifiers, visiting>>)

\* load_tsconfig, the tsconfig is extended
load_extends(o, r, visiting) ==
    IF ~undecided(r) THEN r
    ELSE await("extend_each", o,
               await("extended_tsconfig_paths", o, r, <<r.ts, r.ts.extends>>),
               <<r.ts, r.ts.extends, visiting>>)

RECURSIVE references_from(_)
references_from(reference_paths) ==
    IF reference_paths = <<>> THEN <<>>
    ELSE <<[path |-> Head(reference_paths), tsconfig |-> <<>>]>>
         \o references_from(Tail(reference_paths))

\* load_tsconfig, the references to load
references_of(tsconfig, references) ==
    IF references.t = "disabled" THEN <<>>
    ELSE IF references.t = "auto" THEN tsconfig.references
    ELSE references_from(references.v)

\* the callback of load_tsconfig for a reference
self_reference(r, tsconfig) ==
    IF ~undecided(r) THEN r
    ELSE IF r.ts.path = tsconfig.path THEN Err(r, "TsconfigSelfReference", r.ts.path, "")
    ELSE r

\* Cache::tsconfig, the lookup in the tsconfigs table, which in the
\* resolutions maps the paths to the tsconfigs memoized for them
memoized(path) == key_of(path) \in DOMAIN tsconfigs

\* load_tsconfig, one reference is loaded and kept in done
load_reference(r, tsconfig, path) ==
    IF ~undecided(r) THEN r
    ELSE IF memoized(path) THEN [r EXCEPT !.ts = tsconfigs[key_of(path)]]
    ELSE built(self_reference(await("read_tsconfig", DefaultOptions, r, <<TRUE, path>>),
                              tsconfig))

RECURSIVE load_references_each(_, _, _, _)
RECURSIVE load_references_next(_, _, _, _)
load_references_each(r, tsconfig, todo, done) ==
    IF ~undecided(r) THEN r
    ELSE IF todo = <<>> THEN [r EXCEPT !.ts = [tsconfig EXCEPT !.references = done]]
    ELSE load_references_next(
            load_reference(r, tsconfig,
                           normalize_with(tsconfig_directory(tsconfig), Head(todo).path)),
            tsconfig, todo, done)

load_references_next(r, tsconfig, todo, done) ==
    IF ~undecided(r) THEN r
    ELSE load_references_each(r, tsconfig, Tail(todo),
                              Append(done, [path |-> Head(todo).path, tsconfig |-> <<r.ts>>]))

\* load_tsconfig, the project references of the tsconfig r.ts
load_references(r, references) ==
    IF ~undecided(r) THEN r
    ELSE load_references_each(r, r.ts, references_of(r.ts, references), <<>>)

\* ResolverGeneric::load_tsconfig: r.ts is the tsconfig; visiting holds the
\* paths whose load_tsconfig has not returned
load_tsconfig(o, r, root, path, references, visiting) ==
    IF ~undecided(r) THEN r
    ELSE IF memoized(path) THEN [r EXCEPT !.ts = tsconfigs[key_of(path)]]
    ELSE IF path \in visiting THEN Diverged(r)
    ELSE built(load_references(
                   load_extends(o, await("read_tsconfig", o, r, <<root, path>>),
                                visiting \cup {path}),
                   references))

\* load_tsconfig_paths, the loop over the paths
load_tsconfig_paths_each(o, r, tsconfig_paths) ==
    IF ~undecided(r) \/ tsconfig_paths = <<>> THEN r
    ELSE await("load_tsconfig_paths_each", o,
               if_let_Ok(await("require_relative", o, r, <<Head(tsconfig_paths), ".">>)),
               <<Tail(tsconfig_paths)>>)

\* load_tsconfig_paths once the tsconfig resolved the specifier
load_resolved_paths(o, r, resolved) ==
    IF resolved.panic THEN Panic(r)
    ELSE await("load_tsconfig_paths_each", o, r, <<resolved.paths>>)

\* load_tsconfig_paths once the tsconfig is r.ts
load_paths_of_tsconfig(o, r, cp, specifier) ==
    IF ~undecided(r) THEN r
    ELSE load_resolved_paths(o, r, tsconfig_resolve(r.ts, cp, specifier))

\* ResolverGeneric::load_tsconfig_paths
load_tsconfig_paths(o, r, cp, specifier) ==
    IF ~undecided(r) \/ o.tsconfig = <<>> THEN r
    ELSE load_paths_of_tsconfig(o,
            await("load_tsconfig", o, r,
                  <<TRUE, o.tsconfig[1].config_file, o.tsconfig[1].references, {}>>),
            cp, specifier)

\* NODEJS_BUILTINS, a part of the list
NODEJS_BUILTINS == {"fs", "fs/promises", "os", "path"}

\* require_core that knows no core module
require_core_never(o, specifier) == NoPath

\* ResolverGeneric::require_core: the error of a core module, NoPath for Ok(())
require_core(o, specifier) ==
    IF ~o.builtin_modules THEN NoPath
    ELSE IF starts_with(specifier, "node:") THEN specifier
    ELSE IF specifier \in NODEJS_BUILTINS THEN "node:" \o specifier
    ELSE NoPath

\* load_roots, the loop over the roots
load_roots_each(o, r, specifier, roots) ==
    IF ~undecided(r) \/ roots = <<>> THEN r
    ELSE await("load_roots_each", o,
               if_let_Ok(await("require_relative", o, r, <<Head(roots), specifier>>)),
               <<specifier, Tail(roots)>>)

\* ResolverGeneric::load_roots
load_roots(o, r, specifier) ==
    IF ~undecided(r) \/ o.roots = <<>> THEN r
    ELSE IF specifier = "" \/ ~is_slash(Char(specifier, 1)) THEN r
    ELSE await("load_roots_each", o, r, <<Drop(specifier, 1), o.roots>>)

\* ResolverGeneric::require_absolute
require_absolute(o, r, cp, specifier) ==
    IF ~undecided(r) THEN r
    ELSE ok_or(await("load_as_file_or_directory", o,
                     load_roots(o,
                         (IF ~o.prefer_relative /\ o.prefer_absolute
                          THEN if_let_Ok(await("load_package_self_or_node_modules", o, r,
                                               <<cp, specifier>>))
                          ELSE r),
                         specifier),
                     <<specifier, specifier>>),
               "NotFound", specifier, "")

\* ResolverGeneric::require_relative
require_relative(o, r, cp, specifier) ==
    IF ~undecided(r) THEN r
    ELSE ok_or(await("load_as_file_or_directory", o, r,
                     <<normalize_with(cp, specifier), specifier>>),
               "NotFound", specifier, "")

\* ResolverGeneric::require_hash
require_hash(o, r, cp, specifier) ==
    IF ~undecided(r) THEN r
    ELSE await("load_package_self_or_node_modules", o,
               await("load_package_imports", o, r, <<cp, specifier>>),
               <<cp, specifier>>)

\* ResolverGeneric::require_bare
require_bare(o, r, cp, specifier) ==
    IF ~undecided(r) THEN r
    ELSE await("load_package_self_or_node_modules", o,
               (IF o.prefer_relative
                THEN if_let_Ok(await("require_relative", o, r, <<cp, specifier>>))
                ELSE r),
               <<cp, specifier>>)

\* Path::components().next(): "" for None
first_component(cs) == IF cs = <<>> THEN "" ELSE cs[1]

\* require_without_parse, the match on the first component of the specifier
dispatch(o, r, cp, specifier, first) ==
    IF first = "/" THEN await("require_absolute", o, r, <<cp, specifier>>)
    ELSE IF first \in {".", ".."} THEN await("require_relative", o, r, <<cp, specifier>>)
    ELSE IF first # "" /\ Char(specifier, 1) = "#"
    THEN await("require_hash", o, r, <<cp, specifier>>)
    ELSE await("require_bare", o, r, <<cp, specifier>>)

\* the first arm of the match that goes on to require_core
is_bare(specifier, first) ==
    /\ first \notin {"/", ".", ".."}
    /\ ~(first # "" /\ Char(specifier, 1) = "#")

\* a step of require_without_parse, opened as id, failed
failed_at(r, id, stage) ==
    IF r.k = "err" THEN note(r, event("failed", id, stage, r.e)) ELSE r

\* the match on the result of the dispatch without `if err.is_ignore()`
try_fallback_after_ignored(o, r, cp, specifier, id) ==
    IF r.k # "err" THEN r
    ELSE closing(ok_or(await("load_alias", o,
                             note(None(r), event("fallback", id, specifier, r.e)),
                             <<cp, specifier, o.fallback>>),
                       r.e, r.a, r.b),
                 "fallback_done", id)

\* require_without_parse, the match on the result of the dispatch: the
\* fallback aliases
try_fallback(o, r, cp, specifier, id) ==
    IF r.k # "err" \/ is_ignore(r) THEN r
    ELSE closing(ok_or(await("load_alias", o,
                             note(None(r), event("fallback", id, specifier, r.e)),
                             <<cp, specifier, o.fallback>>),
                       r.e, r.a, r.b),
                 "fallback_done", id)

\* require_without_parse after the aliases
dispatched(o, r, cp, specifier, id) ==
    IF ~undecided(r) THEN r
    ELSE IF is_bare(specifier, first_component(components(specifier)))
            /\ require_core(o, specifier) # NoPath
    THEN failed_at(Err(r, "Builtin", require_core(o, specifier), ""), id, "builtin")
    ELSE try_fallback(o,
            failed_at(dispatch(o, r, cp, specifier, first_component(components(specifier))),
                      id, "dispatch"),
            cp, specifier, id)

\* require_without_parse after the tsconfig paths
aliased(o, r, cp, specifier, id) ==
    IF ~undecided(r) THEN r
    ELSE dispatched(o,
            failed_at(await("load_alias", o, r, <<cp, specifier, o.alias>>), id, "alias"),
            cp, specifier, id)

\* the Ctx and the calls under way of the caller are in use again
restored(r, ctx, active) == [r EXCEPT !.ctx = ctx, !.active = active]

\* require_without_parse, the tsconfig paths: load_tsconfig_paths works on a
\* Ctx::default() of its own.  A call for a path and a specifier for which
\* the same call is under way repeats that call, and so on without end
tsconfig_paths(o, r, cp, specifier) ==
    IF <<cp, specifier>> \in r.active THEN Diverged(r)
    ELSE restored(await("load_tsconfig_paths", o,
                        [r EXCEPT !.ctx = DefaultCtx, !.active = @ \cup {<<cp, specifier>>}],
                        <<cp, specifier>>),
                  r.ctx, r.active)

\* ResolverGeneric::require_without_parse
require_without_parse(o, r, cp, specifier) ==
    IF ~undecided(r) THEN r
    ELSE aliased(o,
            failed_at(tsconfig_paths(o,
                          note(r, event("require_without_parse", next_id(r), cp, specifier)),
                          cp, specifier),
                      next_id(r), "tsconfig"),
            cp, specifier, next_id(r))

\* Specifier::parse: where the path of the specifier ends
path_end(specifier, rest, offset) ==
    IF ~contains(rest, "?") /\ ~contains(rest, "#") THEN Len(specifier)
    ELSE IF ~contains(rest, "#") THEN offset + position(rest, "?") - 1
    ELSE IF ~contains(rest, "?") THEN offset + position(rest, "#") - 1
    ELSE IF position(rest, "?") < position(rest, "#") THEN offset + position(rest, "?") - 1
    ELSE offset + position(rest, "#") - 1

\* Specifier::parse: the first byte is not looked at when it is '/', '.' or '#'
parse_offset(specifier) == IF Char(specifier, 1) \in {"/", ".", "#"} THEN 1 ELSE 0

\* Specifier::path
specifier_path(specifier) ==
    Take(specifier, path_end(specifier, Drop(specifier, parse_offset(specifier)),
                             parse_offset(specifier)))

\* Specifier::fragment: from the first '#', NoPath for None
fragment_of(rest) == IF contains(rest, "#") THEN Drop(rest, position(rest, "#") - 1) ELSE NoPath

\* Specifier::query: from a '?' before the first '#' up to that '#'
query_of(rest) ==
    IF ~contains(rest, "?") THEN NoPath
    ELSE IF ~contains(rest, "#") THEN Drop(rest, position(rest, "?") - 1)
    ELSE IF position(rest, "?") < position(rest, "#")
    THEN SubSeq(rest, position(rest, "?"), position(rest, "#") - 1)
    ELSE NoPath

\* Ctx::with_query_fragment
with_query_fragment(r, query, fragment) ==
    [r EXCEPT !.ctx.query = IF query = NoPath THEN @ ELSE query,
              !.ctx.fragment = IF fragment = NoPath THEN @ ELSE fragment]

\* load_parse after the attempt to take the fragment for a part of the path
fragment_replaced(r, fragment) ==
    IF r.k = "err" THEN None([r EXCEPT !.ctx.fragment = fragment]) ELSE r

\* load_parse once the Ctx holds query and fragment
try_fragment_as_path(o, r, cp, specifier) ==
    IF r.ctx.fragment = NoPath \/ r.ctx.query # NoPath THEN r
    ELSE fragment_replaced(
            await("require_without_parse", o, [r EXCEPT !.ctx.fragment = NoPath],
                  <<cp, specifier_path(specifier) \o r.ctx.fragment>>),
            r.ctx.fragment)

\* ResolverGeneric::load_parse, for a specifier that is not empty
load_parse(o, r, cp, specifier) ==
    IF ~undecided(r) THEN r
    ELSE try_fragment_as_path(o,
            with_query_fragment(r, query_of(Drop(specifier, parse_offset(specifier))),
                                fragment_of(Drop(specifier, parse_offset(specifier)))),
            cp, specifier)

\* Ctx::test_for_infinite_recursion
test_for_infinite_recursion(r) ==
    IF r.ctx.depth + 1 > MaxDepth
    THEN Err([r EXCEPT !.ctx.depth = @ + 1], "Recursion", "", "")
    ELSE [r EXCEPT !.ctx.depth = @ + 1]

\* require after the recursion test
required(o, r, cp, specifier) ==
    IF ~undecided(r) THEN r
    ELSE IF specifier = "" THEN Err(r, "Specifier", "Empty", "")
    ELSE await("require_without_parse", o, await("load_parse", o, r, <<cp, specifier>>),
               <<cp, specifier_path(specifier)>>)

\* ResolverGeneric::require
require(o, r, cp, specifier) ==
    IF ~undecided(r) THEN r
    ELSE required(o, test_for_infinite_recursion(r), cp, specifier)

\* resolve_impl, the Resolution
resolution(r, path) == IF ~undecided(r) THEN r ELSE Some(r, path)

\* resolve_impl after require: load_realpath and the package.json
resolved(o, r) ==
    IF r.k # "ok" THEN r
    ELSE IF ~o.symlinks THEN resolution(await("find_package_json", o, None(r), <<r.p>>), r.p)
    ELSE IF realpath(r.p) = NoPath THEN Err(r, "IOError", r.p, "")
    ELSE resolution(await("find_package_json", o, None(r), <<r.p>>), realpath(r.p))

\* ResolverGeneric::resolve_impl
resolve_impl(o, r, path, specifier) ==
    resolved(o, await("require", o, with_fully_specified(r, o.fully_specified),
                      <<path, specifier>>))

\* parse_package_specifier: the index of the '/' that ends the package name
separator_index(specifier) ==
    IF starts_with(specifier, "@") /\ contains(specifier, "/")
    THEN IF contains(Drop(specifier, position(specifier, "/")), "/")
         THEN position(specifier, "/")
              + position(Drop(specifier, position(specifier, "/")), "/")
         ELSE 0
    ELSE position(specifier, "/")

\* ResolverGeneric::parse_package_specifier, the package name
package_name(specifier) ==
    IF separator_index(specifier) = 0 THEN specifier
    ELSE Take(specifier, separator_index(specifier) - 1)

\* ResolverGeneric::parse_package_specifier, the subpath
package_subpath(specifier) ==
    IF separator_index(specifier) = 0 THEN ""
    ELSE Drop(specifier, separator_index(specifier) - 1)

\* PATTERN_KEY_COMPARE, the base length of a key
base_length(key) == IF contains(key, "*") THEN position(key, "*") ELSE Len(key)

\* pattern_key_compare that ends with Greater for keys it cannot tell apart
pattern_key_compare_unordered(key_a, key_b) ==
    IF key_a = "" THEN "Greater"
    ELSE IF base_length(key_a) > base_length(key_b) THEN "Less"
    ELSE IF base_length(key_b) > base_length(key_a) THEN "Greater"
    ELSE IF ~contains(key_a, "*") THEN "Greater"
    ELSE IF ~contains(key_b, "*") THEN "Less"
    ELSE IF Len(key_a) > Len(key_b) THEN "Less"
    ELSE "Greater"

\* pattern_key_compare that puts a key without "*" before a key with "*"
pattern_key_compare_slash_first(key_a, key_b) ==
    IF key_a = "" THEN "Greater"
    ELSE IF base_length(key_a) > base_length(key_b) THEN "Less"
    ELSE IF base_length(key_b) > base_length(key_a) THEN "Greater"
    ELSE IF ~contains(key_a, "*") THEN "Less"
    ELSE IF ~contains(key_b, "*") THEN "Greater"
    ELSE IF Len(key_a) > Len(key_b) THEN "Less"
    ELSE IF Len(key_b) > Len(key_a) THEN "Greater"
    ELSE "Equal"

\* ResolverGeneric::pattern_key_compare
pattern_key_compare(key_a, key_b) ==
    IF key_a = "" THEN "Greater"
    ELSE IF base_length(key_a) > base_length(key_b) THEN "Less"
    ELSE IF base_length(key_b) > base_length(key_a) THEN "Greater"
    ELSE IF ~contains(key_a, "*") THEN "Greater"
    ELSE IF ~contains(key_b, "*") THEN "Less"
    ELSE IF Len(key_a) > Len(key_b) THEN "Less"
    ELSE IF Len(key_b) > Len(key_a) THEN "Greater"
    ELSE "Equal"

\* a check of the target that accepts every target
is_invalid_exports_target_never(target) == FALSE

\* PathUtil::is_invalid_exports_target
is_invalid_exports_target(target) ==
    \E i \in 1..Len(components(target)) :
        components(target)[i] \in {"..", "node_modules"}

\* normalize_string_target of package_target_resolve: NoPath for the error
\* InvalidPackageConfigDirectory
normalize_string_target(target_key, target, pattern_match) ==
    IF pattern_match = NoPath THEN target
    ELSE IF contains(target_key, "*") \/ contains(target, "*")
    THEN replace(target, "*", pattern_match)
    ELSE IF ends_with(target_key, "/") /\ ends_with(target, "/") THEN target \o pattern_match
    ELSE NoPath

\* package_target_resolve, a target that is a string
string_target(o, r, package_url, target_key, target, pattern_match, is_imports) ==
    IF ~starts_with(target, "./")
       /\ (~is_imports \/ starts_with(target, "../") \/ starts_with(target, "/"))
    THEN Err(r, "InvalidPackageTarget", target, target_key)
    ELSE IF normalize_string_target(target_key, target, pattern_match) = NoPath
    THEN Err(r, "InvalidPackageConfigDirectory", join(package_url, "package.json"), "")
    ELSE IF ~starts_with(target, "./")
    THEN await("package_resolve", o, r,
               <<package_url, normalize_string_target(target_key, target, pattern_match)>>)
    ELSE IF is_invalid_exports_target(normalize_string_target(target_key, target,
                                                              pattern_match))
    THEN Err(r, "InvalidPackageTarget",
             normalize_string_target(target_key, target, pattern_match), target_key)
    ELSE Some(r, normalize_with(package_url,
                                normalize_string_target(target_key, target, pattern_match)))

\* package_target_resolve where only the first entry of condition_names counts
object_target_first_condition(o, r, package_url, target_key, members, pattern_match, is_imports) ==
    IF ~undecided(r) \/ members = <<>> THEN r
    ELSE IF Head(members)[1] = "default"
            \/ (o.condition_names # <<>> /\ o.condition_names[1] = Head(members)[1])
    THEN await("object_target", o,
               await("package_target_resolve", o, r,
                     <<package_url, target_key, Head(members)[2], pattern_match, is_imports>>),
               <<package_url, target_key, Tail(members), pattern_match, is_imports>>)
    ELSE await("object_target", o, r,
               <<package_url, target_key, Tail(members), pattern_match, is_imports>>)

\* package_target_resolve, the loop over the conditions of an object
object_target(o, r, package_url, target_key, members, pattern_match, is_imports) ==
    IF ~undecided(r) \/ members = <<>> THEN r
    ELSE IF Head(members)[1] = "default"
            \/ \E i \in 1..Len(o.condition_names) : o.condition_names[i] = Head(members)[1]
    THEN await("object_target", o,
               await("package_target_resolve", o, r,
                     <<package_url, target_key, Head(members)[2], pattern_match, is_imports>>),
               <<package_url, target_key, Tail(members), pattern_match, is_imports>>)
    ELSE await("object_target", o, r,
               <<package_url, target_key, Tail(members), pattern_match, is_imports>>)

\* package_target_resolve, the match on the result for the target at index i
\* of an array of size targets: is_err() && i == targets.len()
array_target_result(r, i, size) ==
    IF r.k = "err" /\ i = size THEN r ELSE if_let_Ok(r)

\* package_target_resolve, the loop over the targets of an array, from index i
array_target(o, r, package_url, target_key, items, pattern_match, is_imports, i) ==
    IF ~undecided(r) \/ i >= Len(items) THEN r
    ELSE await("array_target", o,
               array_target_result(
                   await("package_target_resolve", o, r,
                         <<package_url, target_key, items[i + 1], pattern_match, is_imports>>),
                   i, Len(items)),
               <<package_url, target_key, items, pattern_match, is_imports, i + 1>>)

\* ResolverGeneric::package_target_resolve
package_target_resolve(o, r, package_url, target_key, target, pattern_match, is_imports) ==
    IF ~undecided(r) THEN r
    ELSE IF target.t = "str"
    THEN string_target(o, r, package_url, target_key, target.v, pattern_match, is_imports)
    ELSE IF target.t = "obj"
    THEN await("object_target", o, r,
               <<package_url, target_key, target.v, pattern_match, is_imports>>)
    ELSE IF target.t = "arr"
    THEN IF target.v = <<>>
         THEN Err(r, "PackagePathNotExported",
                  IF pattern_match = NoPath THEN "." ELSE pattern_match,
                  join(package_url, "package.json"))
         ELSE await("array_target", o, r,
                    <<package_url, target_key, target.v, pattern_match, is_imports, 0>>)
    ELSE r

\* the best expansion key found so far by package_imports_exports_resolve
NoBest == [found |-> FALSE, target |-> JNull, match |-> "", key |-> ""]

\* the key expansion_key with a "*" matches match_key and is better than best
pattern_matches(match_key, expansion_key, best, star) ==
    /\ starts_with(match_key, Take(expansion_key, star - 1))
    /\ ~contains(Drop(expansion_key, star), "*")
    /\ \/ star = Len(expansion_key)
       \/ /\ Len(match_key) >= Len(expansion_key)
          /\ ends_with(match_key, Drop(expansion_key, star))
    /\ pattern_key_compare(best.key, expansion_key) = "Greater"

RECURSIVE best_match_last(_, _, _)
\* a loop over the expansion keys that keeps the key that matches last in the
\* order of the map
best_match_last(members, match_key, best) ==
    IF members = <<>> THEN best
    ELSE IF ~(starts_with(Head(members)[1], "./") \/ starts_with(Head(members)[1], "#"))
    THEN best_match_last(Tail(members), match_key, best)
    ELSE IF contains(Head(members)[1], "*")
    THEN IF pattern_matches(match_key, Head(members)[1], NoBest, position(Head(members)[1], "*"))
         THEN best_match_last(Tail(members), match_key,
                  [found |-> TRUE, target |-> Head(members)[2],
                   match |-> SubSeq(match_key, position(Head(members)[1], "*"),
                                    Len(match_key) - (Len(Head(members)[1])
                                                     - position(Head(members)[1], "*"))),
                   key |-> Head(members)[1]])
         ELSE best_match_last(Tail(members), match_key, best)
    ELSE IF ends_with(Head(members)[1], "/") /\ starts_with(match_key, Head(members)[1])
    THEN best_match_last(Tail(members), match_key,
             [found |-> TRUE, target |-> Head(members)[2],
              match |-> Drop(match_key, Len(Head(members)[1])), key |-> Head(members)[1]])
    ELSE best_match_last(Tail(members), match_key, best)

RECURSIVE best_match(_, _, _)
\* package_imports_exports_resolve, the loop over the expansion keys
best_match(members, match_key, best) ==
    IF members = <<>> THEN best
    ELSE IF ~(starts_with(Head(members)[1], "./") \/ starts_with(Head(members)[1], "#"))
    THEN best_match(Tail(members), match_key, best)
    ELSE IF contains(Head(members)[1], "*")
    THEN IF pattern_matches(match_key, Head(members)[1], best, position(Head(members)[1], "*"))
         THEN best_match(Tail(members), match_key,
                  [found |-> TRUE, target |-> Head(members)[2],
                   match |-> SubSeq(match_key, position(Head(members)[1], "*"),
                                    Len(match_key) - (Len(Head(members)[1])
                                                     - position(Head(members)[1], "*"))),
                   key |-> Head(members)[1]])
         ELSE best_match(Tail(members), match_key, best)
    ELSE IF /\ ends_with(Head(members)[1], "/")
            /\ starts_with(match_key, Head(members)[1])
            /\ pattern_key_compare(best.key, Head(members)[1]) = "Greater"
    THEN best_match(Tail(members), match_key,
             [found |-> TRUE, target |-> Head(members)[2],
              match |-> Drop(match_key, Len(Head(members)[1])), key |-> Head(members)[1]])
    ELSE best_match(Tail(members), match_key, best)

\* package_imports_exports_resolve for the best expansion key
best_target(o, r, package_url, best, is_imports) ==
    IF ~best.found THEN r
    ELSE await("package_target_resolve", o, r,
               <<package_url, best.key, best.target, best.match, is_imports>>)

\* ResolverGeneric::package_imports_exports_resolve
package_imports_exports_resolve(o, r, match_key, match_obj, package_url, is_imports) ==
    IF ~undecided(r) \/ ends_with(match_key, "/") THEN r
    ELSE IF ~contains(match_key, "*") /\ Len(members_get(match_obj, match_key)) = 1
    THEN await("package_target_resolve", o, r,
               <<package_url, match_key, members_get(match_obj, match_key)[1], NoPath,
                 is_imports>>)
    ELSE best_target(o, r, package_url, best_match(match_obj, match_key, NoBest), is_imports)

RECURSIVE has_dot(_)
\* a key of the exports object starts with "." or "#"
has_dot(members) ==
    /\ members # <<>>
    /\ \/ starts_with(Head(members)[1], ".") \/ starts_with(Head(members)[1], "#")
       \/ has_dot(Tail(members))

RECURSIVE without_dot(_)
without_dot(members) ==
    /\ members # <<>>
    /\ \/ ~(starts_with(Head(members)[1], ".") \/ starts_with(Head(members)[1], "#"))
       \/ without_dot(Tail(members))

RECURSIVE has_subpath_key(_)
\* a key of the exports object starts with "./" or "#"
has_subpath_key(members) ==
    /\ members # <<>>
    /\ \/ starts_with(Head(members)[1], "./") \/ starts_with(Head(members)[1], "#")
       \/ has_subpath_key(Tail(members))

\* package_exports_resolve, the main export: <<>> for undefined
main_export(exports) ==
    IF exports.t \in {"str", "arr"} THEN <<exports>>
    ELSE IF exports.t # "obj" THEN <<>>
    ELSE IF Len(members_get(exports.v, ".")) = 1 THEN members_get(exports.v, ".")
    ELSE IF has_subpath_key(exports.v) THEN <<>>
    ELSE <<exports>>

\* package_exports_resolve, the subpath "."
main_export_target(o, r, package_url, subpath, exports) ==
    IF subpath # "." THEN r
    ELSE IF r.ctx.query # NoPath \/ r.ctx.fragment # NoPath
    THEN Err(r, "PackagePathNotExported",
             "./" \o trim_start_matches(subpath, ".")
                  \o (IF r.ctx.query = NoPath THEN "" ELSE r.ctx.query)
                  \o (IF r.ctx.fragment = NoPath THEN "" ELSE r.ctx.fragment),
             join(package_url, "package.json"))
    ELSE IF Len(main_export(exports)) = 0 THEN r
    ELSE await("package_target_resolve", o, r,
               <<package_url, ".", main_export(exports)[1], NoPath, FALSE>>)

\* package_exports_resolve, the keys of an exports object
exports_keys(o, r, package_url, subpath, exports) ==
    IF ~undecided(r) \/ exports.t # "obj" THEN r
    ELSE await("package_imports_exports_resolve", o, r,
               <<subpath, exports.v, package_url, FALSE>>)

\* ResolverGeneric::package_exports_resolve
package_exports_resolve(o, r, package_url, subpath, exports) ==
    IF ~undecided(r) THEN r
    ELSE IF exports.t = "obj" /\ has_dot(exports.v) /\ without_dot(exports.v)
    THEN Err(r, "InvalidPackageConfig", join(package_url, "package.json"), "")
    ELSE ok_or(exports_keys(o, main_export_target(o, r, package_url, subpath, exports),
                            package_url, subpath, exports),
               "PackagePathNotExported", subpath, join(package_url, "package.json"))

\* the match of an exports or imports field is r.p: RESOLVE_ESM_MATCH(MATCH)
esm_match(o, r, specifier) ==
    IF r.k # "ok" THEN r
    ELSE await("resolve_esm_match", o, None(r), <<specifier, r.p>>)

\* the loop over the exports fields of load_package_exports and of
\* load_package_self
load_exports_each(o, r, package_url, subpath, specifier, fields) ==
    IF ~undecided(r) \/ fields = <<>> THEN r
    ELSE await("load_exports_each", o,
               esm_match(o,
                   await("package_exports_resolve", o, r,
                         <<package_url, "." \o subpath, Head(fields)>>),
                   specifier),
               <<package_url, subpath, specifier, Tail(fields)>>)

\* load_package_exports once the package.json of the directory is r.pkg
load_exports_of(o, r, specifier, subpath, cp) ==
    IF ~undecided(r) \/ ~r.pkg.found THEN r
    ELSE await("load_exports_each", o, r,
               <<cp, subpath, specifier, exports_fields(r.pkg, o.exports_fields)>>)

\* ResolverGeneric::load_package_exports
load_package_exports(o, r, specifier, subpath, cp) ==
    IF ~undecided(r) THEN r
    ELSE load_exports_of(o, await("package_json", o, r, <<cp>>), specifier, subpath, cp)

\* resolve_esm_match, the result for the path before the last '?'
esm_before(o, r, specifier, cp, before) ==
    IF r.k = "ok" THEN Some(r, cp)
    ELSE IF ~undecided(r) THEN r
    ELSE await("esm_query", o, r, <<specifier, cp, before>>)

\* resolve_esm_match, the loop that strips the path from its last '?'
esm_query(o, r, specifier, cp, path_str) ==
    IF ~undecided(r) THEN r
    ELSE IF ~contains(path_str, "?") THEN Err(r, "NotFound", specifier, "")
    ELSE esm_before(o,
            await("load_as_file_or_directory", o, r,
                  <<Take(path_str, rposition(path_str, "?") - 1), "">>),
            specifier, cp, Take(path_str, rposition(path_str, "?") - 1))

\* ResolverGeneric::resolve_esm_match
resolve_esm_match(o, r, specifier, cp) ==
    IF ~undecided(r) THEN r
    ELSE await("esm_query", o, await("load_as_file_or_directory", o, r, <<cp, "">>),
               <<specifier, cp, cp>>)

\* package_imports_resolve, the loop over the imports fields
imports_each(o, r, specifier, pkg, fields) ==
    IF ~undecided(r) THEN r
    ELSE IF fields = <<>>
    THEN Err(r, "PackageImportNotDefined", specifier, pkg.path)
    ELSE await("imports_each", o,
               await("package_imports_exports_resolve", o, r,
                     <<specifier, Head(fields).v, directory(pkg), TRUE>>),
               <<specifier, pkg, Tail(fields)>>)

\* ResolverGeneric::package_imports_resolve
package_imports_resolve(o, r, specifier, pkg) ==
    IF ~undecided(r) \/ imports_fields(pkg, o.imports_fields) = <<>> THEN r
    ELSE IF specifier = "#" \/ starts_with(specifier, "#/")
    THEN Err(r, "InvalidModuleSpecifier", specifier, pkg.path)
    ELSE await("imports_each", o, r, <<specifier, pkg, imports_fields(pkg, o.imports_fields)>>)

\* load_package_imports once the package.json found is r.pkg
load_imports_of(o, r, specifier) ==
    IF ~undecided(r) \/ ~r.pkg.found THEN r
    ELSE esm_match(o, await("package_imports_resolve", o, r, <<specifier, r.pkg>>), specifier)

\* ResolverGeneric::load_package_imports
load_package_imports(o, r, cp, specifier) ==
    IF ~undecided(r) THEN r
    ELSE load_imports_of(o, await("find_package_json", o, r, <<cp>>), specifier)

\* load_package_self, the browser field of the package.json found
self_browser_field(o, r, cp, specifier, pkg) ==
    IF ~undecided(r) THEN r
    ELSE await("load_browser_field", o, [r EXCEPT !.pkg = pkg], <<cp, specifier>>)

\* load_package_self, the exports of the package named by the specifier
self_exports(o, r, specifier, subpath) ==
    IF subpath = NoPath THEN r
    ELSE await("load_exports_each", o, r,
               <<directory(r.pkg), subpath, specifier,
                 exports_fields(r.pkg, o.exports_fields)>>)

\* load_package_self once the package.json found is r.pkg
load_self_of(o, r, cp, specifier) ==
    IF ~undecided(r) \/ ~r.pkg.found THEN r
    ELSE self_browser_field(o,
            self_exports(o, r, specifier,
                IF Len(package_name_of(r.pkg)) = 0 THEN NoPath
                ELSE strip_package_name(specifier, package_name_of(r.pkg)[1])),
            cp, specifier, r.pkg)

\* ResolverGeneric::load_package_self
load_package_self(o, r, cp, specifier) ==
    IF ~undecided(r) THEN r
    ELSE load_self_of(o, await("find_package_json", o, r, <<cp>>), cp, specifier)

\* CachedPathImpl::module_directory, and cached_node_modules for
\* "node_modules": the directory, NoPath for None
module_directory(cp, module_name) ==
    IF is_dir(join(cp, module_name)) THEN join(cp, module_name) ELSE NoPath

\* get_module_directory asks for the directory itself
is_module_directory(cp, module_name) ==
    module_name # "node_modules" /\ last_component(components(cp)) = module_name

\* ResolverGeneric::get_module_directory: the directory, NoPath for None
get_module_directory(cp, module_name) ==
    IF is_module_directory(cp, module_name) THEN cp ELSE module_directory(cp, module_name)

\* get_module_directory, its effect on the Ctx
after_get_module_directory(r, cp, module_name) ==
    IF is_module_directory(cp, module_name) THEN r
    ELSE IF module_name = "node_modules" /\ cp \in nodes
    THEN consult(r, join(cp, module_name))
    ELSE after_is_dir(r, join(cp, module_name))

\* load_node_modules, the load of the specifier under a module directory
load_module_file(o, r, module_dir, specifier) ==
    await("load_as_file_or_directory", o, r,
          <<normalize_with(module_dir, specifier), specifier>>)

\* load_node_modules for the package directory package_path of module_dir
load_module_package(o, r, module_dir, specifier, package_path) ==
    IF is_dir(package_path)
    THEN load_module_file(o,
            await("load_package_exports", o, after_is_dir(r, package_path),
                  <<specifier, package_subpath(specifier), package_path>>),
            module_dir, specifier)
    ELSE IF package_subpath(specifier) # "" THEN after_is_dir(r, package_path)
    ELSE IF starts_with(package_name(specifier), "@") /\ parent(package_path) # NoPath
            /\ ~is_dir(parent(package_path))
    THEN after_is_dir(after_is_dir(r, package_path), parent(package_path))
    ELSE load_module_file(o, after_is_dir(r, package_path), module_dir, specifier)

\* load_node_modules in the module directory module_dir
load_module(o, r, module_dir, specifier) ==
    IF module_dir = NoPath THEN r
    ELSE IF package_name(specifier) # ""
    THEN load_module_package(o, r, module_dir, specifier,
                             normalize_with(module_dir, package_name(specifier)))
    ELSE load_module_file(o, r, module_dir, specifier)

\* a loop over cached_path and its ancestors that begins with the farthest one
load_node_modules_farthest_first(o, r, cp, module_name, specifier) ==
    IF ~undecided(r) \/ cp = NoPath THEN r
    ELSE IF ~is_dir(cp)
    THEN await("load_node_modules_from", o, r, <<parent(cp), module_name, specifier>>)
    ELSE load_module(o, await("load_node_modules_from", o, r,
                              <<parent(cp), module_name, specifier>>),
                     get_module_directory(cp, module_name), specifier)

\* load_node_modules, the loop over cached_path and its ancestors
load_node_modules_from(o, r, cp, module_name, specifier) ==
    IF ~undecided(r) \/ cp = NoPath THEN r
    ELSE IF ~is_dir(cp)
    THEN await("load_node_modules_from", o, after_is_dir(r, cp),
               <<parent(cp), module_name, specifier>>)
    ELSE await("load_node_modules_from", o,
               load_module(o, after_get_module_directory(after_is_dir(r, cp), cp, module_name),
                           get_module_directory(cp, module_name), specifier),
               <<parent(cp), module_name, specifier>>)

\* load_node_modules, the loop over the module names
load_node_modules_each(o, r, cp, specifier, modules) ==
    IF ~undecided(r) \/ modules = <<>> THEN r
    ELSE await("load_node_modules_each", o,
               await("load_node_modules_from", o, r, <<cp, Head(modules), specifier>>),
               <<cp, specifier, Tail(modules)>>)

\* ResolverGeneric::load_node_modules
load_node_modules(o, r, cp, specifier) ==
    await("load_node_modules_each", o, r, <<cp, specifier, o.modules>>)

\* ResolverGeneric::load_package_self_or_node_modules
load_package_self_or_node_modules(o, r, cp, specifier) ==
    IF ~undecided(r) THEN r
    ELSE ok_or(await("load_node_modules", o,
                     await("load_package_self", o,
                           (IF package_subpath(specifier) = ""
                            THEN with_fully_specified(r, FALSE) ELSE r),
                           <<cp, specifier>>),
                     <<cp, specifier>>),
               "NotFound", specifier, "")

\* package_resolve, the main fields of a package asked for as "."
package_main(o, r, package_path, fields) ==
    IF ~undecided(r) \/ fields = <<>> THEN r
    ELSE await("package_main", o,
               load_file(o, r, normalize_with(package_path, Head(fields))),
               <<package_path, Tail(fields)>>)

\* package_resolve once the package.json of the package directory is r.pkg
package_of(o, r, package_path, subpath) ==
    IF ~undecided(r) THEN r
    ELSE IF ~r.pkg.found
    THEN await("require", o, with_fully_specified(r, FALSE), <<package_path, "." \o subpath>>)
    ELSE await("package_require", o,
               await("package_exports_each", o, r,
                     <<package_path, subpath, exports_fields(r.pkg, o.exports_fields)>>),
               <<package_path, subpath, main_fields(r.pkg, o.main_fields)>>)

\* package_resolve, the loop over the exports fields
package_exports_each(o, r, package_path, subpath, fields) ==
    IF ~undecided(r) \/ fields = <<>> THEN r
    ELSE await("package_exports_each", o,
               await("package_exports_resolve", o, r,
                     <<package_path, "." \o subpath, Head(fields)>>),
               <<package_path, subpath, Tail(fields)>>)

\* package_resolve, after the exports fields
package_require(o, r, package_path, subpath, fields) ==
    IF ~undecided(r) THEN r
    ELSE IF subpath = "."
    THEN await("package_required", o, package_main(o, r, package_path, fields),
               <<package_path, subpath>>)
    ELSE await("package_required", o, r, <<package_path, subpath>>)

package_required(o, r, package_path, subpath) ==
    IF ~undecided(r) THEN r
    ELSE await("require", o, with_fully_specified(r, FALSE), <<package_path, "." \o subpath>>)

\* package_resolve in the module directory module_dir
package_in(o, r, module_dir, specifier, package_path) ==
    IF module_dir = NoPath \/ ~is_dir(package_path) THEN r
    ELSE package_of(o, await("package_json", o, r, <<package_path>>), package_path,
                    package_subpath(specifier))

\* package_resolve, the loop over cached_path and its ancestors
package_resolve_from(o, r, cp, module_name, specifier) ==
    IF ~undecided(r) \/ cp = NoPath THEN r
    ELSE await("package_resolve_from", o,
               package_in(o, r, get_module_directory(cp, module_name), specifier,
                          normalize_with(get_module_directory(cp, module_name),
                                         package_name(specifier))),
               <<parent(cp), module_name, specifier>>)

\* package_resolve, the loop over the module names
package_resolve_each(o, r, cp, specifier, modules) ==
    IF ~undecided(r) \/ modules = <<>> THEN r
    ELSE await("package_resolve_each", o,
               await("package_resolve_from", o, r, <<cp, Head(modules), specifier>>),
               <<cp, specifier, Tail(modules)>>)

\* ResolverGeneric::package_resolve
package_resolve(o, r, cp, specifier) ==
    IF ~undecided(r) THEN r
    ELSE IF require_core(o, package_name(specifier)) # NoPath
    THEN Err(r, "Builtin", require_core(o, package_name(specifier)), "")
    ELSE ok_or(await("package_resolve_each", o, r, <<cp, specifier, o.modules>>),
               "NotFound", specifier, "")

\* the engine function named f runs as far as the calls that returned to it
\* let it
poll(f, o, r, args) ==
    CASE f = "resolve_impl" -> resolve_impl(o, r, args[1], args[2])
      [] f = "require" -> require(o, r, args[1], args[2])
      [] f = "require_without_parse" -> require_without_parse(o, r, args[1], args[2])
      [] f = "load_parse" -> load_parse(o, r, args[1], args[2])
      [] f = "require_absolute" -> require_absolute(o, r, args[1], args[2])
      [] f = "require_relative" -> require_relative(o, r, args[1], args[2])
      [] f = "require_hash" -> require_hash(o, r, args[1], args[2])
      [] f = "require_bare" -> require_bare(o, r, args[1], args[2])
      [] f = "load_roots_each" -> load_roots_each(o, r, args[1], args[2])
      [] f = "load_tsconfig" -> load_tsconfig(o, r, args[1], args[2], args[3], args[4])
      [] f = "read_tsconfig" -> read_tsconfig(r, args[1], args[2])
      [] f = "package_json" -> package_json(o, r, args[1])
      [] f = "find_package_json" -> find_package_json(o, r, args[1])
      [] f = "find_package_json_up" -> find_package_json_up(o, r, args[1])
      [] f = "load_tsconfig_paths" -> load_tsconfig_paths(o, r, args[1], args[2])
      [] f = "load_tsconfig_paths_each" -> load_tsconfig_paths_each(o, r, args[1])
      [] f = "extended_tsconfig_paths" -> extended_tsconfig_paths(o, r, args[1], args[2])
      [] f = "extend_each" -> extend_each(o, r, args[1], args[2], args[3])
      [] f = "extend_with" -> extend_with(o, r, args[1], args[2], args[3])
      [] f = "load_alias" -> load_alias(o, r, args[1], args[2], args[3])
      [] f = "load_alias_each" -> load_alias_each(o, r, args[1], args[2], args[3])
      [] f = "load_alias_values" -> load_alias_values(o, r, args[1], args[2], args[3], args[4])
      [] f = "load_alias_value" -> load_alias_value(o, r, args[1], args[2], args[3], args[4])
      [] f = "load_browser_field" -> load_browser_field(o, r, args[1], args[2])
      [] f = "load_alias_or_file" -> load_alias_or_file(o, r, args[1])
      [] f = "load_extension_alias" -> load_extension_alias(o, r, args[1])
      [] f = "load_extension_alias_each" -> load_extension_alias_each(o, r, args[1], args[2])
      [] f = "load_extensions" -> load_extensions(o, r, args[1], args[2])
      [] f = "load_extensions_each" -> load_extensions_each(o, r, args[1], args[2])
      [] f = "load_as_file" -> load_as_file(o, r, args[1])
      [] f = "load_index" -> load_index(o, r, args[1])
      [] f = "load_index_each" -> load_index_each(o, r, args[1], args[2])
      [] f = "load_main_fields" -> load_main_fields(o, r, args[1], args[2])
      [] f = "load_as_directory" -> load_as_directory(o, r, args[1])
      [] f = "load_as_file_or_directory" -> load_as_file_or_directory(o, r, args[1], args[2])
      [] f = "load_package_self_or_node_modules" ->
            load_package_self_or_node_modules(o, r, args[1], args[2])
      [] f = "load_package_self" -> load_package_self(o, r, args[1], args[2])
      [] f = "load_package_imports" -> load_package_imports(o, r, args[1], args[2])
      [] f = "load_package_exports" -> load_package_exports(o, r, args[1], args[2], args[3])
      [] f = "load_exports_each" ->
            load_exports_each(o, r, args[1], args[2], args[3], args[4])
      [] f = "load_node_modules" -> load_node_modules(o, r, args[1], args[2])
      [] f = "load_node_modules_each" -> load_node_modules_each(o, r, args[1], args[2], args[3])
      [] f = "load_node_modules_from" -> load_node_modules_from(o, r, args[1], args[2], args[3])
      [] f = "resolve_esm_match" -> resolve_esm_match(o, r, args[1], args[2])
      [] f = "esm_query" -> esm_query(o, r, args[1], args[2], args[3])
      [] f = "package_resolve" -> package_resolve(o, r, args[1], args[2])
      [] f = "package_resolve_each" -> package_resolve_each(o, r, args[1], args[2], args[3])
      [] f = "package_resolve_from" -> package_resolve_from(o, r, args[1], args[2], args[3])
      [] f = "package_exports_each" -> package_exports_each(o, r, args[1], args[2], args[3])
      [] f = "package_require" -> package_require(o, r, args[1], args[2], args[3])
      [] f = "package_required" -> package_required(o, r, args[1], args[2])
      [] f = "package_main" -> package_main(o, r, args[1], args[2])
      [] f = "package_exports_resolve" ->
            package_exports_resolve(o, r, args[1], args[2], args[3])
      [] f = "package_imports_resolve" -> package_imports_resolve(o, r, args[1], args[2])
      [] f = "imports_each" -> imports_each(o, r, args[1], args[2], args[3])
      [] f = "package_imports_exports_resolve" ->
            package_imports_exports_resolve(o, r, args[1], args[2], args[3], args[4])
      [] f = "package_target_resolve" ->
            package_target_resolve(o, r, args[1], args[2], args[3], args[4], args[5])
      [] f = "object_target" ->
            object_target(o, r, args[1], args[2], args[3], args[4], args[5])
      [] f = "array_target" ->
            array_target(o, r, args[1], args[2], args[3], args[4], args[5], args[6])

-----------------------------------------------------------------------------
(* The resolver at work: a resolver is built with its options over a file  *)
(* system, and resolve is called on it.                                    *)

Dirs(names) == [name \in names |-> "dir"]

Files(names) == [name \in names |-> "file"]

\* /p/package.json
ProjectJson ==
    JObj(<< <<"name", JStr("proj")>>,
            <<"browser", JObj(<< <<"./b.js", JBool(FALSE)>>,
                                 <<"./x.js", JStr("./a.js")>>,
                                 <<"gone", JBool(FALSE)>> >>)>>,
            <<"imports", JObj(<< <<"#a", JStr("./a.js")>> >>)>> >>)

\* /p/node_modules/m/package.json
ModuleJson ==
    JObj(<< <<"name", JStr("m")>>,
            <<"main", JStr("./a.js")>>,
            <<"exports", JObj(<< <<".", JStr("./a.js?q")>>,
                                 <<"./ok", JStr("./a.js")>>,
                                 <<"./arr", JArr(<<JStr("./nope.js"), JStr("./a.js")>>)>> >>)>> >>)

\* /p/node_modules/c/package.json
ConditionsJson ==
    JObj(<< <<"name", JStr("c")>>,
            <<"exports",
              JObj(<< <<".", JObj(<< <<"import", JStr("./i.js")>>,
                                     <<"require", JStr("./r.js")>> >>)>>,
                      <<"./sub", JObj(<< <<"node", JNull>>,
                                         <<"require", JObj(<< <<"worker", JStr("./w.js")>> >>)>>,
                                         <<"import", JStr("./i.js")>>,
                                         <<"default", JStr("./d.js")>> >>)>>,
                      <<"./none", JObj(<< <<"worker", JStr("./w.js")>> >>)>>,
                      <<"./inv", JArr(<<JStr("bad"), JStr("../x.js")>>)>> >>)>> >>)

\* /p/tsconfig.json
TsconfigJson ==
    JObj(<< <<"compilerOptions",
              JObj(<< <<"paths", JObj(<< <<"foo", JArr(<<JStr("./x")>>)>>,
                                         <<"loop", JArr(<<JStr("./")>>)>> >>)>> >>)>> >>)

\* /p/self/tsconfig.json, which names its own directory as a project reference
SelfTsconfigJson ==
    JObj(<< <<"references", JArr(<<JObj(<< <<"path", JStr(".")>> >>)>>)>> >>)

\* the file system of the project /p
Project ==
    [kind |-> Dirs({"/", "/p", "/p/dir", "/p/node_modules", "/p/node_modules/m",
                    "/p/node_modules/n", "/p/node_modules/j", "/p/node_modules/c",
                    "/r", "/p/u", "/p/u/package.json", "/p/r", "/p/self"})
              @@ Files({"/p/a.js", "/p/a.ts", "/p/b.js", "/p/c.mjs", "/p/c.mjs.js", "/p/x.js",
                        "/p/e.mjs.js", "/p/r/b.js", "/p/self/tsconfig.json",
                        "/p/dir/index.js", "/p/package.json", "/p/tsconfig.json",
                        "/p/node_modules/m/a.js", "/p/node_modules/m/package.json",
                        "/p/node_modules/n/index.js", "/p/node_modules/j/package.json",
                        "/p/node_modules/c/package.json", "/p/node_modules/c/i.js",
                        "/p/node_modules/c/r.js", "/p/node_modules/c/d.js",
                        "/p/node_modules/c/w.js", "/p/u/index.js",
                        "/r/b.js"}),
     link |-> ("/p/link.js" :> "/r/b.js"),
     json |-> ("/p/package.json" :> ProjectJson)
              @@ ("/p/node_modules/m/package.json" :> ModuleJson)
              @@ ("/p/node_modules/j/package.json" :> JInvalid)
              @@ ("/p/node_modules/c/package.json" :> ConditionsJson)
              @@ ("/p/tsconfig.json" :> TsconfigJson)
              @@ ("/p/self/tsconfig.json" :> SelfTsconfigJson)]

\* the alias option of the project
ProjectAlias ==
    << <<"one", <<AliasPath("./a")>> >>,
       <<"miss", <<AliasPath("./nope"), AliasPath("./nope2")>> >>,
       <<"miss", <<AliasPath("./a")>> >>,
       <<"self", <<AliasPath("self")>> >>,
       <<"self", <<AliasPath("./b")>> >>,
       <<"file", <<AliasPath("/p/a.js")>> >>,
       <<"file", <<AliasPath("/p/dir")>> >>,
       <<"ign", <<AliasIgnore>> >>,
       <<"late", <<AliasPath("./nope"), AliasIgnore>> >>,
       <<"bad", <<AliasPath("m/hidden"), AliasPath("./a")>> >>,
       <<"cyc1", <<AliasPath("cyc2")>> >>,
       <<"cyc2", <<AliasPath("cyc1")>> >>,
       <<"exact$", <<AliasPath("./dir")>> >> >>

\* the fallback option of the project
ProjectFallback ==
    << <<"./nope", <<AliasPath("./a")>> >>,
       <<"m/hidden", <<AliasPath("./a")>> >>,
       <<"j", <<AliasPath("./nope2")>> >>,
       <<"fs", <<AliasPath("./a")>> >>,
       <<"miss", <<AliasPath("./a")>> >>,
       <<"./b.js", <<AliasPath("./a")>> >>,
       <<"lost", <<AliasPath("./nope2")>> >>,
       <<"bare", <<AliasPath("bare")>> >> >>

ProjectTsconfig == <<[config_file |-> "/p/tsconfig.json", references |-> ReferencesDisabled]>>

SelfTsconfig == <<[config_file |-> "/p/self/tsconfig.json", references |-> ReferencesAuto]>>

SelfTsconfigPaths ==
    <<[config_file |-> "/p/self/tsconfig.json",
       references |-> ReferencesPaths(<<"./tsconfig.json">>)]>>

ReferringTsconfig ==
    <<[config_file |-> "/p/tsconfig.json", references |-> ReferencesPaths(<<"./self">>)]>>

MissingTsconfig == <<[config_file |-> "/p/none.json", references |-> ReferencesDisabled]>>

Browser == << <<"browser">> >>

\* a resolve call: the directory and the specifier
Request(path, specifier) == [path |-> path, specifier |-> specifier]

PlainRequests ==
    {Request("/p", s) : s \in {"./a", "./a.js", "./dir", "./nope", "./b.js", "./x.js",
                               "m", "m/ok", "m/arr", "m/hidden", "n", "j", "fs", "#a",
                               "/p/a.js", "./a.js#f", "./a.js?q", "./c.mjs", "b.js"}}

AliasRequests ==
    {Request("/p", s) : s \in {"one", "miss", "self", "file/index.js", "ign", "late", "bad",
                               "cyc1", "exact", "exact/index.js", "one/deep"}}

FallbackRequests == {Request("/p", s) : s \in {"lost", "bare", "gone"}}

BuiltinRequests ==
    {Request("/p", s) : s \in {"fs", "node:fs", "fs/promises", "node:fs/promises", "os",
                               "node:path", "m", "#a"}}

ConditionRequests == {Request("/p", s) : s \in {"c", "c/sub", "c/none", "c/inv"}}

\* a resolver: its file system, its options and the calls made on it
Resolver(f, o, requests) == [fs |-> f, o |-> o, requests |-> requests]

Resolvers ==
    { Resolver(Project, DefaultOptions, PlainRequests),
      Resolver(Project, [DefaultOptions EXCEPT !.alias = ProjectAlias],
               PlainRequests \cup AliasRequests),
      Resolver(Project, [DefaultOptions EXCEPT !.fallback = ProjectFallback,
                                               !.builtin_modules = TRUE],
               PlainRequests \cup FallbackRequests),
      Resolver(Project, [DefaultOptions EXCEPT !.alias = ProjectAlias,
                                               !.fallback = ProjectFallback],
               AliasRequests \cup FallbackRequests),
      Resolver(Project, [DefaultOptions EXCEPT !.alias_fields = Browser,
                                               !.fallback = ProjectFallback],
               PlainRequests \cup FallbackRequests),
      Resolver(Project, [DefaultOptions EXCEPT !.alias_fields = Browser,
                                               !.prefer_relative = TRUE],
               PlainRequests),
      Resolver(Project, [DefaultOptions EXCEPT !.alias_fields = Browser,
                                               !.roots = <<"/p", "/r">>],
               {Request("/p", "/b.js"), Request("/p", "/a.js"), Request("/p", "/nope")}),
      Resolver(Project, [DefaultOptions EXCEPT !.roots = <<"/p", "/r">>],
               {Request("/p", "/r/b.js"), Request("/p", "/b.js"), Request("/p", "/p/a.js"),
                Request("/p", "/dir"), Request("/p", "/nope")}),
      Resolver(Project, [DefaultOptions EXCEPT !.builtin_modules = TRUE,
                                               !.alias = ProjectAlias,
                                               !.alias_fields = Browser,
                                               !.fallback = ProjectFallback],
               BuiltinRequests),
      Resolver(Project, DefaultOptions, BuiltinRequests),
      Resolver(Project, [DefaultOptions EXCEPT !.tsconfig = SelfTsconfig],
               {Request("/p", "./a"), Request("/p/self", "foo")}),
      Resolver(Project, [DefaultOptions EXCEPT !.tsconfig = SelfTsconfigPaths],
               {Request("/p", "./a"), Request("/p/self", "foo")}),
      Resolver(Project, [DefaultOptions EXCEPT !.tsconfig = ReferringTsconfig],
               {Request("/p", "./a"), Request("/p/self", "foo"), Request("/p", "foo")}),
      Resolver(Project, [DefaultOptions EXCEPT !.tsconfig = ProjectTsconfig],
               PlainRequests \cup {Request("/p", "foo")}),
      Resolver(Project, [DefaultOptions EXCEPT !.tsconfig = MissingTsconfig,
                                               !.fallback = ProjectFallback],
               {Request("/p", "./nope"), Request("/p", "./a")}),
      Resolver(Project, [DefaultOptions EXCEPT !.tsconfig = ProjectTsconfig,
                                               !.alias = << <<"/p$", <<AliasPath("loop")>> >> >>],
               {Request("/p", "loop"), Request("/p", "foo"), Request("/p", "./a")}),
      Resolver(Project, [DefaultOptions EXCEPT
                            !.extension_alias = << <<".js", <<".ts", ".js">> >>,
                                                   <<".mjs", <<".mts">> >> >>],
               PlainRequests \cup {Request("/p", "./d.mjs"), Request("/p", "./x.js"),
                                    Request("/p", "./index.js")}),
      Resolver(Project, [DefaultOptions EXCEPT
                            !.extension_alias = << <<".mjs", <<".mts">> >> >>,
                            !.restrictions = <<[t |-> "fn", v |-> ".js"]>>],
               {Request("/p", "./c.mjs"), Request("/p", "./a.js"), Request("/p", "./a")}),
      Resolver(Project, DefaultOptions,
               {Request("/p", "./u"), Request("/p", "./u/package.json"),
                Request("/p", "./link.js")}),
      Resolver(Project, [DefaultOptions EXCEPT !.extensions = <<".ts", ".js">>],
               {Request("/p", "./a"), Request("/p", "./b"), Request("/p", "./a.js"),
                Request("/p", "./nope")}),
      Resolver(Project, [DefaultOptions EXCEPT !.enforce_extension = TRUE],
               {Request("/p", "./a"), Request("/p", "./a.js"), Request("/p", "./c.mjs")}),
      Resolver(Project, [DefaultOptions EXCEPT !.fully_specified = TRUE],
               {Request("/p", "./a"), Request("/p", "./a.js"), Request("/p", "./dir"),
                Request("/p", "/p/a"), Request("/p", "/p/a.js"),
                Request("/p", "./node_modules/m"), Request("/p", "./link.js")}),
      Resolver(Project, [DefaultOptions EXCEPT
                            !.fully_specified = TRUE,
                            !.extension_alias = << <<".mjs", <<".mts">> >> >>],
               {Request("/p", "./e.mjs"), Request("/p", "./c.mjs"), Request("/p", "./a")}),
      Resolver(Project, [DefaultOptions EXCEPT !.condition_names = <<"import", "require">>],
               ConditionRequests),
      Resolver(Project, [DefaultOptions EXCEPT !.condition_names = <<"require", "import">>],
               ConditionRequests),
      Resolver(Project, [DefaultOptions EXCEPT !.condition_names = <<"node">>],
               ConditionRequests),
      Resolver(Project, [DefaultOptions EXCEPT !.resolve_to_context = TRUE,
                                               !.restrictions = <<[t |-> "fn", v |-> ".js"]>>],
               {Request("/p", "./dir"), Request("/p", "./a.js")}),
      Resolver(Project, [DefaultOptions EXCEPT !.restrictions = <<[t |-> "path", v |-> "/p"]>>],
               {Request("/p", "./a"), Request("/p", "./dir"), Request("/p", "n"),
                Request("/p", "/r/b.js")}),
      Resolver(Project, [DefaultOptions EXCEPT !.resolve_to_context = TRUE],
               {Request("/p", "./dir"), Request("/p", "./a.js"), Request("/p", "n")}) }

\* no call was made yet
Idle == [Start EXCEPT !.k = "idle"]

\* the directories of a file system
directories(f) == {path \in DOMAIN f.kind : f.kind[path] = "dir"}

\* the tsconfig that Cache::tsconfig memoizes for a path loaded as a project
\* reference of a tsconfig with another path
reference_tsconfig(f, path) ==
    build(parse_tsconfig(TRUE, tsconfig_path(path, fs_metadata(f, path)),
                         fs_read(f, tsconfig_path(path, fs_metadata(f, path)))))

\* the paths under which earlier loads on the same cache have memoized the
\* tsconfig of /p/self as a project reference
MemoizedReferences == {"/p/self", "/p/self/tsconfig.json"}

\* the tables of memoized tsconfigs that a call can find: an empty one, and
\* for a resolver that loads project references the one that earlier loads
\* of a tsconfig with these references have left
memos(f, o) ==
    IF o.tsconfig = <<>> THEN {<<>>}
    ELSE IF o.tsconfig[1].references.t = "disabled" THEN {<<>>}
    ELSE {<<>>, [path \in MemoizedReferences |-> reference_tsconfig(f, path)]}

\* in this specification nodes is the set of the cached paths whose
\* node_modules slot earlier resolutions have initialized: none or every
\* directory
Init ==
    /\ \E resolver \in Resolvers :
          /\ fs = resolver.fs
          /\ request = [o |-> resolver.o, requests |-> resolver.requests,
                        path |-> NoPath, specifier |-> ""]
          /\ nodes \in {{}, directories(resolver.fs)}
          /\ tsconfigs \in memos(resolver.fs, resolver.o)
    /\ paths = {}
    /\ tasks = <<>>
    /\ calls = <<>>
    /\ generation = 0
    /\ changes = 0
    /\ outcome = Idle
    /\ stack = <<>>

\* ResolverGeneric::resolve
Resolve ==
    /\ request.path = NoPath
    /\ \E q \in request.requests :
          /\ request' = [request EXCEPT !.path = q.path, !.specifier = q.specifier]
          /\ stack' = <<Future(Call("resolve_impl", request.o, Start,
                                   <<q.path, q.specifier>>))>>
    /\ UNCHANGED <<fs, paths, tsconfigs, nodes, tasks, calls, generation, changes, outcome>>

\* Ctx::init_file_dependencies
init_file_dependencies(r) == [r EXCEPT !.ctx.track = TRUE]

\* ResolverGeneric::resolve_with_context
ResolveWithContext ==
    /\ request.path = NoPath
    /\ \E q \in request.requests :
          /\ request' = [request EXCEPT !.path = q.path, !.specifier = q.specifier]
          /\ stack' = <<Future(Call("resolve_impl", request.o, init_file_dependencies(Start),
                                   <<q.path, q.specifier>>))>>
    /\ UNCHANGED <<fs, paths, tsconfigs, nodes, tasks, calls, generation, changes, outcome>>

\* the engine function on top of the stack
polled == stack[Len(stack)]

\* the engine function on top of the stack awaits a call: the call is on top
Await(r) ==
    /\ r.k = "pending"
    /\ stack' = Append(stack, Future(r.awaited[1]))
    /\ UNCHANGED outcome

\* the engine function on top of the stack returns r to its caller
Return(r) ==
    /\ r.k # "pending"
    /\ Len(stack) > 1
    /\ stack' = [SubSeq(stack, 1, Len(stack) - 1) EXCEPT
                    ![Len(stack) - 1].returned =
                        Append(@, [call |-> polled.call, result |-> r])]
    /\ UNCHANGED outcome

\* resolve_impl returns r: the resolve call is over
Complete(r) ==
    /\ r.k # "pending"
    /\ Len(stack) = 1
    /\ stack' = <<>>
    /\ outcome' = r

Polled(r) == Await(r) \/ Return(r) \/ Complete(r)

\* the engine function on top of the stack is polled
Poll ==
    /\ stack # <<>>
    /\ Polled(poll(polled.call.f, polled.call.o, polled.call.r, polled.call.args))
    /\ UNCHANGED <<fs, paths, tsconfigs, nodes, tasks, calls, generation, changes, request>>

Next == Resolve \/ ResolveWithContext \/ Poll

Spec == Init /\ [][Next]_vars

\* ---------------------------------------------------------------------------
\* The resolve call

\* the log of the call at hand
log == outcome.log

\* the event of kind ev that closes the operation opened as id is at j
closes(j, ev, id) == log[j].ev = ev /\ log[j].id = id

\* C3: every resolve call terminates with a Resolution or an error, whatever
\* the alias, fallback, browser field and tsconfig paths are, cyclic ones
\* included
C3_ResolveTerminates == outcome.k \in {"idle", "ok", "err"}

\* C4: the path of a resolve call that succeeds exists on the file system, as
\* a file, or as a directory when resolve_to_context is on
C4_ReturnedPathExists ==
    outcome.k = "ok" =>
        fs_metadata(fs, outcome.p) = (IF request.o.resolve_to_context THEN "dir" ELSE "file")

\* C5: when a stage of the resolution yields Ignored, the resolve call returns
\* the Ignored error
C5_IgnoredIsReturned ==
    outcome.ignored => (outcome.k = "err" /\ outcome.e = "Ignored")

\* a value of the alias key that closes at i was attempted: a require ran
\* between the opening of the key and its close
attempted(i) ==
    \E j \in (log[i].id + 1)..(i - 1) : log[j].ev = "alias_value"

\* C6: an alias key that matches the specifier and of which at least one value
\* was attempted never lets load_alias continue: it ends in a resolution, in
\* MatchedAliasNotFound when every attempt failed with NotFound or
\* MatchedAliasNotFound, or in the other error of an attempt; load_alias goes
\* on to the later keys only when every value of the key was skipped
C6_StopsAfterAnAttempt ==
    \A i \in DOMAIN log :
        log[i].ev = "alias_key_done" =>
            /\ log[i].a = flag(attempted(i))
            /\ log[i].b = "none" => ~attempted(i)
            /\ log[i].b = "MatchedAliasNotFound" => attempted(i)

\* C6, the case: both values of the key "miss" were attempted and failed, the
\* call fails with MatchedAliasNotFound although a later key "miss" resolves
C6_Witness ==
    /\ outcome.k = "err"
    /\ outcome.e = "MatchedAliasNotFound"
    /\ request.specifier = "miss"
    /\ \E i \in DOMAIN log :
          /\ log[i].ev = "alias_key_done"
          /\ log[i].b = "MatchedAliasNotFound"
          /\ Cardinality({j \in (log[i].id + 1)..(i - 1) : log[j].ev = "alias_value"}) = 2

\* C6 as stated: an alias key that matches the specifier and whose values
\* produce no resolution makes load_alias fail with MatchedAliasNotFound
C6_MatchedKeyFails ==
    \A i \in DOMAIN log :
        (log[i].ev = "alias_key_done" /\ log[i].b # "ok") =>
            log[i].b = "MatchedAliasNotFound"

\* a key of the fallback list matched the specifier of the fallback opened at i
fallback_matched(i) == i < Len(log) /\ log[i + 1].ev = "alias_key"

\* the fallback list opened at i and closed at j attempted no value and met no
\* Ignore value: no key matched the specifier, or every value of the keys that
\* matched was skipped
fallback_idle(i, j) ==
    \A k \in (i + 1)..(j - 1) :
        \/ log[k].ev = "alias_key"
        \/ log[k].ev = "alias_key_done" /\ log[k].b = "none"

\* C7: the error of the dispatch is returned unchanged when the fallback list
\* attempts no value; when a key of the fallback list matches and a value is
\* attempted, the result of the fallback list takes its place, whatever the
\* error was
C7_ErrorUnlessFallbackMatches ==
    \A i \in DOMAIN log :
        log[i].ev = "fallback" =>
            /\ \E j \in (i + 1)..Len(log) : closes(j, "fallback_done", log[i].id)
            /\ \A j \in (i + 1)..Len(log) :
                  (closes(j, "fallback_done", log[i].id) /\ fallback_idle(i, j)) =>
                      (log[j].a = "err" /\ log[j].b = log[i].b)

\* C7, the case: the dispatch failed with PackagePathNotExported, a fallback
\* key matched and the call succeeds
C7_Witness ==
    /\ outcome.k = "ok"
    /\ request.specifier = "m/hidden"
    /\ \E i \in DOMAIN log :
          /\ log[i].ev = "fallback"
          /\ log[i].id = 1
          /\ log[i].b = "PackagePathNotExported"
          /\ fallback_matched(i)

\* C7 as stated: an error of the dispatch other than NotFound,
\* MatchedAliasNotFound and Ignored is the result after the fallback list
C7_OtherErrorsUnchanged ==
    \A i, j \in DOMAIN log :
        (/\ log[i].ev = "fallback"
         /\ log[i].b \notin {"NotFound", "MatchedAliasNotFound", "Ignored"}
         /\ closes(j, "fallback_done", log[i].id)) =>
            (log[j].a = "err" /\ log[j].b = log[i].b)

\* the fallback list is tried right after the failure at i
fallback_follows(i) ==
    /\ i < Len(log)
    /\ log[i + 1].ev = "fallback"
    /\ log[i + 1].id = log[i].id
    /\ log[i + 1].b = log[i].b

\* C8: the fallback list is tried exactly after a failure of the dispatch on
\* the first path component with an error that is not Ignored; an error of
\* the tsconfig paths, of the alias list or of the built-in check is returned
\* without the fallback list, and so is Ignored
C8_FallbackAfterDispatchOnly ==
    /\ \A i \in DOMAIN log :
          log[i].ev = "failed" =>
              (fallback_follows(i) <=> (log[i].a = "dispatch" /\ log[i].b # "Ignored"))
    /\ \A j \in DOMAIN log :
          log[j].ev = "fallback" => (j > 1 /\ log[j - 1].ev = "failed")
    /\ \A i \in DOMAIN log :
          (/\ log[i].ev = "failed"
           /\ log[i].id = 1
           /\ ~fallback_follows(i)
           /\ ~contains(request.specifier, "#")) =>
              (outcome.k = "err" /\ outcome.e = log[i].b /\ i = Len(log))

\* C8, the case: the built-in check failed, the call returns Builtin and the
\* key "fs" of the fallback list was not tried
C8_Witness ==
    /\ outcome.k = "err"
    /\ outcome.e = "Builtin"
    /\ request.o.fallback # <<>>
    /\ alias_key_of(request.o.fallback[4][1], request.specifier) # NoPath
    /\ \E i \in DOMAIN log : log[i].ev = "failed" /\ log[i].a = "builtin"
    /\ \A i \in DOMAIN log : log[i].ev # "fallback"

\* C8 as stated: every failure of the tsconfig paths, of the alias list or of
\* the dispatch with an error that is not Ignored is followed by the fallback
\* list, and the fallback list follows nothing else
C8_FallbackAfterEveryFailure ==
    /\ \A i \in DOMAIN log :
          (log[i].ev = "failed" /\ log[i].b # "Ignored") => fallback_follows(i)
    /\ \A j \in DOMAIN log :
          log[j].ev = "fallback" =>
              (j > 1 /\ log[j - 1].ev = "failed" /\ log[j - 1].b # "Ignored")

\* a file that load_alias_or_file returns when no alias and no alias field is
\* configured
acceptable(o, path) == is_file(path) /\ check_restrictions(o, path)

RECURSIVE first_acceptable(_, _, _)
\* the first substitute, in the listed order, that is an acceptable file
first_acceptable(o, path_without_extension, extensions) ==
    IF extensions = <<>> THEN NoPath
    ELSE IF acceptable(o, path_without_extension \o Head(extensions))
    THEN path_without_extension \o Head(extensions)
    ELSE first_acceptable(o, path_without_extension, Tail(extensions))

\* the first acceptable substitute of the candidate of the event at i
substitute(i) ==
    first_acceptable(request.o, without_extension(log[i].a),
                     extension_alias_of(request.o.extension_alias, extension(log[i].a))[1])

\* no alias and no alias field is configured
alias_free == request.o.alias = <<>> /\ request.o.alias_fields = <<>>

RECURSIVE selected_target(_, _), selected_member(_, _)
\* the value that a target of strings, nulls and condition maps selects under
\* the set names of conditions: JNull when it selects nothing
selected_target(target, names) ==
    IF target.t = "obj" THEN selected_member(target.v, names) ELSE target

\* the selection of the first member, in insertion order, whose key is
\* "default" or in names and whose value selects something
selected_member(members, names) ==
    IF members = <<>> THEN JNull
    ELSE IF /\ Head(members)[1] \in names \cup {"default"}
            /\ selected_target(Head(members)[2], names) # JNull
    THEN selected_target(Head(members)[2], names)
    ELSE selected_member(Tail(members), names)

\* the set of the entries of condition_names
conditions == {request.o.condition_names[i] : i \in 1..Len(request.o.condition_names)}

\* the exports of the package c
exports_of_c == json_get(ConditionsJson, "exports")[1]

\* the key of exports_of_c that the specifier of the call asks for
exports_key == IF request.specifier = "c" THEN "." ELSE "." \o Drop(request.specifier, 1)

\* a call for a subpath of c whose target is a condition map
conditional ==
    /\ outcome.k # "idle"
    /\ package_name(request.specifier) = "c"
    /\ json_get(exports_of_c, exports_key) # <<>>
    /\ json_get(exports_of_c, exports_key)[1].t = "obj"

\* C12: the branch of a condition map is the first key, in the insertion order
\* of the object, that is "default" or one of condition_names, as a set, and
\* whose value selects a target; when no key selects one the call fails with
\* PackagePathNotExported
C12_FirstQualifyingCondition ==
    conditional =>
        IF selected_target(json_get(exports_of_c, exports_key)[1], conditions) = JNull
        THEN outcome.k = "err" /\ outcome.e = "PackagePathNotExported"
        ELSE /\ outcome.k = "ok"
             /\ outcome.p = normalize_with("/p/node_modules/c",
                                selected_target(json_get(exports_of_c, exports_key)[1],
                                                conditions).v)

\* C12, the case: with condition_names [require, import] the map
\* {node, require, import, default} of ./sub selects import, after the null of
\* node was passed over as no condition and require selected nothing
C12_Witness ==
    /\ conditional
    /\ request.specifier = "c/sub"
    /\ request.o.condition_names = <<"require", "import">>
    /\ outcome.k = "ok"
    /\ outcome.p = "/p/node_modules/c/i.js"

\* C12, the case of the main export: no key of {import, require} is in
\* condition_names [node]
C12_WitnessMain ==
    /\ conditional
    /\ request.specifier = "c"
    /\ request.o.condition_names = <<"node">>
    /\ outcome.k = "err"
    /\ outcome.e = "PackagePathNotExported"

\* the target of the call in the exports of c is an array
array_of_failures ==
    /\ outcome.k # "idle"
    /\ package_name(request.specifier) = "c"
    /\ json_get(exports_of_c, exports_key) # <<>>
    /\ json_get(exports_of_c, exports_key)[1].t = "arr"
    /\ \A i \in DOMAIN json_get(exports_of_c, exports_key)[1].v :
          /\ json_get(exports_of_c, exports_key)[1].v[i].t = "str"
          /\ ~starts_with(json_get(exports_of_c, exports_key)[1].v[i].v, "./")

\* C13: an array target whose entries all fail with InvalidPackageTarget fails
\* with the error of its last entry
C13_LastErrorOfArray ==
    array_of_failures => (outcome.k = "err" /\ outcome.e = "InvalidPackageTarget")

\* the keys that pattern_key_compare is applied to: each has exactly one "*"
PatternKeys == {"./*", "./a*", "./b*", "./a/*", "./*.js", "./a*.js", "./ab*", "#a/*"}

\* three keys are chosen
CompareInit ==
    /\ request \in [key_a : PatternKeys, key_b : PatternKeys, key_c : PatternKeys]
    /\ outcome = [k |-> "idle"]
    /\ fs = <<>>
    /\ paths = {}
    /\ tsconfigs = {}
    /\ nodes = <<>>
    /\ tasks = <<>>
    /\ calls = <<>>
    /\ generation = 0
    /\ changes = 0
    /\ stack = <<>>

\* pattern_key_compare is applied to the pairs of the three keys
Compare ==
    /\ outcome.k = "idle"
    /\ outcome' = [k |-> "compared",
                   ab |-> pattern_key_compare(request.key_a, request.key_b),
                   ba |-> pattern_key_compare(request.key_b, request.key_a),
                   bc |-> pattern_key_compare(request.key_b, request.key_c),
                   ac |-> pattern_key_compare(request.key_a, request.key_c)]
    /\ UNCHANGED <<fs, paths, tsconfigs, nodes, tasks, calls, generation, changes, request,
                   stack>>

CompareNext == Compare

CompareSpec == CompareInit /\ [][CompareNext]_vars

\* Ordering::reverse
reverse(ordering) ==
    IF ordering = "Less" THEN "Greater" ELSE IF ordering = "Greater" THEN "Less" ELSE "Equal"

\* C14: on keys with exactly one "*" pattern_key_compare is a strict weak
\* order: compare(a, b) is the reverse of compare(b, a), Less is transitive,
\* Equal is transitive, and two keys are Equal exactly when they agree in the
\* index of "*" and in length
C14_StrictWeakOrder ==
    outcome.k = "compared" =>
        /\ outcome.ab = reverse(outcome.ba)
        /\ (outcome.ab = "Less" /\ outcome.bc = "Less") => outcome.ac = "Less"
        /\ (outcome.ab = "Equal" /\ outcome.bc = "Equal") => outcome.ac = "Equal"
        /\ outcome.ab = "Equal" <=>
              /\ position(request.key_a, "*") = position(request.key_b, "*")
              /\ Len(request.key_a) = Len(request.key_b)

\* C14, the case: three distinct keys in a chain, and two distinct keys that
\* are Equal
C14_Witness ==
    /\ outcome.k = "compared"
    /\ request.key_a = "./a*.js"
    /\ request.key_b = "./a*"
    /\ request.key_c = "./b*"
    /\ outcome.ab = "Less"
    /\ outcome.bc = "Equal"
    /\ outcome.ac = "Less"

\* C14 as stated: of two distinct keys exactly one orders before the other
C14_TotalOnDistinctKeys ==
    (outcome.k = "compared" /\ request.key_a # request.key_b) =>
        (outcome.ab = "Less") # (outcome.ba = "Less")

\* C15: the path of every successful resolve call passes every restriction
C15_ReturnedPathPassesRestrictions ==
    (outcome.k = "ok" /\ request.o.restrictions # <<>>) =>
        check_restrictions(request.o, outcome.p)

\* the candidate paths and the restricted directories of Restriction::Path
RestrictionPaths ==
    {"/", "/p", "/p/a.js", "/p/dir", "/p/dir/index.js", "/p/dir/sub/x.js", "/pa", "/p.js",
     "/r", "/r/b.js", "/r/p/a.js"}

RestrictedPaths == {"/", "/p", "/p/dir", "/p/a.js", "/r"}

\* a candidate and a resolver with the one restriction Restriction::Path(D)
RestrictionInit ==
    /\ \E path \in RestrictionPaths, restricted_path \in RestrictedPaths :
          request = [o |-> [DefaultOptions EXCEPT
                               !.restrictions = <<[t |-> "path", v |-> restricted_path]>>],
                     path |-> path]
    /\ outcome = [k |-> "idle"]
    /\ fs = <<>>
    /\ paths = {}
    /\ tsconfigs = {}
    /\ nodes = <<>>
    /\ tasks = <<>>
    /\ calls = <<>>
    /\ generation = 0
    /\ changes = 0
    /\ stack = <<>>

\* ResolverGeneric::check_restrictions is applied to the candidate
CheckRestrictions ==
    /\ outcome.k = "idle"
    /\ outcome' = [k |-> "checked", accepted |-> check_restrictions(request.o, request.path)]
    /\ UNCHANGED <<fs, paths, tsconfigs, nodes, tasks, calls, generation, changes, request,
                   stack>>

RestrictionNext == CheckRestrictions

RestrictionSpec == RestrictionInit /\ [][RestrictionNext]_vars

\* C16: Restriction::Path(D) accepts the candidate exactly when the candidate
\* is D or lies inside the directory D
C16_AcceptsExactlyInside ==
    outcome.k = "checked" =>
        (outcome.accepted <=>
            is_prefix(components(request.o.restrictions[1].v), components(request.path)))

\* the call was made with resolve_with_context and has returned
with_context == outcome.k \in {"ok", "err"} /\ outcome.ctx.track

\* the path exists: FileSystem::metadata succeeds
exists(path) == fs_metadata(fs, path) # "none"

\* C17: after resolve_with_context every path of file_dependencies exists, no
\* path of missing_dependencies exists, and the two sets are disjoint
C17_DependenciesMatchFileSystem ==
    with_context =>
        /\ \A path \in outcome.ctx.file_dependencies : exists(path)
        /\ \A path \in outcome.ctx.missing_dependencies : ~exists(path)
        /\ outcome.ctx.file_dependencies \cap outcome.ctx.missing_dependencies = {}

\* C18: resolve_with_context reports every path whose existence was consulted
\* during the call in file_dependencies or in missing_dependencies, whether
\* the node_modules slots were initialized before the call or not
C18_ConsultedIsReported ==
    with_context =>
        outcome.consulted \subseteq
            (outcome.ctx.file_dependencies \cup outcome.ctx.missing_dependencies)

\* C19: the path of a Resolution that carries a package_json starts with the
\* directory of that package.json: the debug assertion of resolve_impl holds
C19_PathInsidePackage ==
    (outcome.k = "ok" /\ outcome.pkg.found) =>
        path_starts_with(outcome.p, directory(outcome.pkg))

\* the suffixes that load_as_file tries, in its order: none for the candidate
\* as it is, then the extensions
suffixes(o) == (IF o.enforce_extension THEN <<>> ELSE <<"">>) \o o.extensions

C20_WitnessEnforced ==
    /\ request.o.enforce_extension
    /\ is_file("/p/c.mjs")
    /\ outcome.k = "ok"
    /\ outcome.p = "/p/c.mjs.js"


\* the path that the call names: the specifier on the directory of the call
requested == normalize_with(request.path, request.specifier)

\* the specifier is relative or absolute
is_path_request(specifier) ==
    starts_with(specifier, "./") \/ starts_with(specifier, "../") \/ starts_with(specifier, "/")

\* C21: with fully_specified on, a relative or absolute request resolves only
\* to the path requested (or to its real path): no extension is appended and
\* no main file is used, whatever else is configured
C21_ExactPathOnly ==
    (/\ request.o.fully_specified
     /\ is_path_request(request.specifier)
     /\ outcome.k = "ok") =>
        outcome.p \in {requested, fs_canonicalize(fs, requested)}


\* a server-relative request on a resolver with roots, with nothing that is
\* tried before the roots: no tsconfig, no alias, prefer_absolute off
server_relative ==
    /\ request.path # NoPath
    /\ request.o.roots # <<>>
    /\ request.o.tsconfig = <<>>
    /\ alias_free
    /\ ~request.o.prefer_absolute
    /\ starts_with(request.specifier, "/")

\* the candidate of the request under a root
under_root(root) == normalize_with(root, Drop(request.specifier, 1))

\* load_as_file was entered at log[i] for the candidate cp
tried_as_file(i, cp) == log[i].ev = "load_as_file" /\ log[i].a = cp

\* C22: a server-relative request is tried as an absolute path before it is
\* tried under any root, and when the absolute path is a file the call
\* returns that file
C22_AbsoluteFirst ==
    server_relative =>
        /\ (outcome.k \in {"ok", "err"} /\ acceptable(request.o, request.specifier)) =>
              (outcome.k = "ok" /\ outcome.p = fs_canonicalize(fs, request.specifier))
        /\ \A i \in DOMAIN log :
              (\E n \in DOMAIN request.o.roots :
                  tried_as_file(i, under_root(request.o.roots[n]))) =>
                  \E j \in 1..(i - 1) : tried_as_file(j, request.specifier)

\* C22, what the engine does: the request is tried under every root, in the listed order,
\* before it is tried as an absolute path, and it is never tried as an
\* absolute path once a file was found under a root
C22_RootsFirst ==
    server_relative =>
        \A j \in DOMAIN log :
            tried_as_file(j, request.specifier) =>
                /\ \A n \in DOMAIN request.o.roots :
                      \E i \in 1..(j - 1) :
                          /\ tried_as_file(i, under_root(request.o.roots[n]))
                          /\ \A m \in 1..(n - 1) :
                                \E h \in 1..(i - 1) :
                                    tried_as_file(h, under_root(request.o.roots[m]))
                /\ \A i, h \in 1..(j - 1) :
                      (/\ \E n \in DOMAIN request.o.roots :
                             tried_as_file(i, under_root(request.o.roots[n]))
                       /\ closes(h, "load_as_file_done", log[i].id)) => log[h].a # "ok"

\* C22, the case: /r/b.js exists and so does /p/r/b.js under the root /p; the
\* call returns the file under the root
C22_Witness ==
    /\ server_relative
    /\ request.specifier = "/r/b.js"
    /\ is_file("/r/b.js")
    /\ outcome.k = "ok"
    /\ outcome.p = "/p/r/b.js"

\* C22, the case of no file under any root: the absolute path is tried after
\* the roots and returned
C22_WitnessAbsolute ==
    /\ server_relative
    /\ request.specifier = "/p/a.js"
    /\ \E j \in DOMAIN log : tried_as_file(j, "/p/a.js")
    /\ outcome.k = "ok"
    /\ outcome.p = "/p/a.js"


\* the name of the core module that the specifier asks for: N for N and for
\* node:N when N is in NODEJS_BUILTINS, NoPath else
builtin_name(specifier) ==
    IF specifier \in NODEJS_BUILTINS THEN specifier
    ELSE IF starts_with(specifier, "node:") /\ Drop(specifier, 5) \in NODEJS_BUILTINS
    THEN Drop(specifier, 5)
    ELSE NoPath

\* no key of the alias list matches the specifier
alias_unmatched ==
    \A n \in DOMAIN request.o.alias :
        alias_key_of(request.o.alias[n][1], request.specifier) = NoPath

\* C23: with builtin_modules on, no tsconfig and no alias key that matches,
\* the call for a core module N or for node:N fails with Builtin("node:N")
\* and has consulted no path of the file system; with builtin_modules off no
\* call fails with Builtin
C23_BuiltinWithoutLookup ==
    /\ (/\ request.path # NoPath
        /\ request.o.builtin_modules
        /\ request.o.tsconfig = <<>>
        /\ alias_unmatched
        /\ builtin_name(request.specifier) # NoPath) =>
           /\ outcome.consulted = {}
           /\ outcome.k \in {"ok", "err"} =>
                 /\ outcome.k = "err"
                 /\ outcome.e = "Builtin"
                 /\ outcome.a = "node:" \o builtin_name(request.specifier)
    /\ ~request.o.builtin_modules => ~(outcome.k = "err" /\ outcome.e = "Builtin")

\* C23, the case: fs is asked for with an alias list, a browser field and a
\* fallback list whose key fs matches; the call fails with Builtin("node:fs")
C23_Witness ==
    /\ request.o.builtin_modules
    /\ request.o.alias # <<>>
    /\ request.o.fallback # <<>>
    /\ request.specifier = "fs"
    /\ outcome.k = "err"
    /\ outcome.e = "Builtin"
    /\ outcome.a = "node:fs"

\* C23, the case of builtin_modules off: fs is looked up as a package and is
\* not found
C23_WitnessOff ==
    /\ ~request.o.builtin_modules
    /\ request.specifier = "node:fs"
    /\ outcome.k = "err"
    /\ outcome.e = "NotFound"
    /\ outcome.consulted # {}


\* the file of the tsconfig that the resolver is configured with
config_path ==
    tsconfig_path(request.o.tsconfig[1].config_file, meta(request.o.tsconfig[1].config_file))

\* the project references that load_tsconfig loads for the configured
\* tsconfig, as paths
configured_references ==
    references_of(parse_tsconfig(TRUE, config_path, fs_read(fs, config_path)),
                  request.o.tsconfig[1].references)

\* a project reference of the configured tsconfig names the file of that
\* tsconfig
self_referencing ==
    /\ request.o.tsconfig # <<>>
    /\ fs_readable(fs, config_path)
    /\ \E n \in DOMAIN configured_references :
          tsconfig_path(normalize_with(parent(config_path), configured_references[n].path),
                        meta(normalize_with(parent(config_path),
                                            configured_references[n].path))) = config_path

\* C24: a call that loads a tsconfig whose project references include its own
\* file fails with TsconfigSelfReference, whatever tsconfigs the cache has
\* memoized before
C24_SelfReferenceRejected ==
    (self_referencing /\ outcome.k \in {"ok", "err"}) =>
        (outcome.k = "err" /\ outcome.e = "TsconfigSelfReference")

\* C24, on a cache that has memoized no tsconfig the self reference is rejected
C24_RejectedOnFreshCache ==
    (self_referencing /\ tsconfigs = <<>> /\ outcome.k \in {"ok", "err"}) =>
        (outcome.k = "err" /\ outcome.e = "TsconfigSelfReference" /\ outcome.a = config_path)


\* the node was built after the last clear_cache
current(n) == nodes[n].generation = generation

\* the nodes that task t holds: the one returned to it, the ones of its
\* frames and the one whose cell it read last
held(t) ==
    ({tasks[t].node} \cup {tasks[t].stack[i].node : i \in DOMAIN tasks[t].stack}
        \cup (IF tasks[t].seen = <<>> THEN {}
              ELSE {tasks[t].seen[1].node, tasks[t].seen[1].ref})) \ {0}

\* C25: after clear_cache at a quiescent point nothing memoized before it is
\* observed: the set holds only nodes built after it, the tasks hold only
\* such nodes, their parent links and module directories are such nodes
\* too, and every memoized metadata and tsconfig was read from the file
\* system after it
C25_NothingFromBeforeTheClear ==
    /\ \A n \in paths : current(n)
    /\ \A t \in Tasks : \A n \in held(t) : current(n)
    /\ \A n \in 1..Len(nodes) :
          current(n) =>
              /\ nodes[n].parent # 0 => current(nodes[n].parent)
              /\ (nodes[n].node_modules # <<>> /\ nodes[n].node_modules[1] # 0) =>
                    current(nodes[n].node_modules[1])
              /\ nodes[n].meta # <<>> => calls[key_of(nodes[n].path)] > 0
    /\ \A key \in tsconfigs : calls[key] > 0

\* C25, the case: the package.json of /a was memoized before the clear, the
\* file system changed, and the task that asks after the clear is given the
\* package.json read anew by a node whose parent was built after the clear
C25_Witness ==
    /\ generation = 1
    /\ \E n, m \in 1..Len(nodes), t \in Tasks :
          /\ ~current(n)
          /\ current(m)
          /\ nodes[n].path = "/a"
          /\ nodes[m].path = "/a"
          /\ nodes[n].package_json # <<>>
          /\ nodes[m].package_json # <<>>
          /\ nodes[n].package_json # nodes[m].package_json
          /\ current(nodes[m].parent)
          /\ tasks[t].seen # <<>>
          /\ tasks[t].seen[1].node = m
          /\ tasks[t].seen[1].slot = "package_json"
          /\ <<tasks[t].seen[1].val>> = nodes[m].package_json

\* C25, the case of the tsconfig table: the tsconfig of /a is memoized again
\* after the clear
C25_WitnessTsconfig ==
    /\ generation = 1
    /\ "/a" \in tsconfigs


\* task t waits at a once-cell whose initializer another task is running
waiting(t) ==
    /\ tasks[t].stack # <<>>
    /\ top(t).op \in Slots
    /\ top(t).pc = "enter"
    /\ LET n == IF top(t).node = 0 THEN tasks[t].node ELSE top(t).node IN
          /\ ~initialized(n, top(t).op)
          /\ nodes[n].permit[top(t).op] # 0

\* the futures of a task are dropped in this step while it runs initializers
cancelled_in_initializer(t) ==
    /\ initializing(t) # {}
    /\ tasks[t].stack # <<>>
    /\ tasks'[t] = [IdleTask EXCEPT !.ops = tasks[t].ops]

\* C26: a once-cell whose initializer is running is empty; when the task that
\* runs the initializer is cancelled the cell is left empty and its permit
\* free; a task that waits at a cell does not wait forever
C26_CancelledInitializer ==
    /\ [](\A c \in (1..Len(nodes)) \X Slots :
              nodes[c[1]].permit[c[2]] # 0 => ~initialized(c[1], c[2]))
    /\ [][\A t \in Tasks :
              cancelled_in_initializer(t) =>
                  \A c \in initializing(t) :
                      /\ nodes'[c[1]][c[2]] = <<>>
                      /\ nodes'[c[1]].permit[c[2]] = 0]_vars
    /\ \A t \in Tasks : waiting(t) ~> ~waiting(t)

\* C26, the case: the initializer of a once-cell was dropped with its task,
\* and a task that asked later ran it again and was given the value of the
\* cell
C26_Witness ==
    \E c \in outcome, t \in Tasks :
        /\ initialized(c[1], c[2])
        /\ tasks[t].seen # <<>>
        /\ tasks[t].seen[1].node = c[1]
        /\ tasks[t].seen[1].slot = c[2]

\* C26, the case of a task that waited: it waited at the cell while the
\* initializer ran, the initializer was dropped, and the task that waited
\* runs it
C26_WitnessWaiter ==
    \E c \in outcome, t \in Tasks :
        /\ nodes[c[1]].permit[c[2]] = t
        /\ ~initialized(c[1], c[2])


-----------------------------------------------------------------------------
(* C27: the tasks that find the initializer of a once-cell running.        *)

\* the cell at which task t waits: node and slot
waited(t) == <<IF top(t).node = 0 THEN tasks[t].node ELSE top(t).node, top(t).op>>

\* the run of the initializer that holds the permit of cell c ends in this step
run_ends(c) == nodes[c[1]].permit[c[2]] # 0 /\ nodes'[c[1]].permit[c[2]] = 0

\* C27: when the initializer run that a task waits for ends, the cell holds
\* the result of that run, also when the run failed, so that the task that
\* waits is given that result and no second run is made for it
C27_SingleRunForWaiters ==
    [][\A t \in Tasks :
          waiting(t) /\ run_ends(waited(t)) => initialized(waited(t)[1], waited(t)[2])']_vars

\* C27, for the runs that succeed only: when the initializer run that a task
\* waits for ends without an error, the cell holds the value that the
\* initializing task was given, and a cell that is set is never initialized
\* again; when the run ends with an error the error goes to the initializing
\* task alone and the cell is left empty with its permit free, so that the
\* task that waits runs the initializer itself
C27_SingleRunUnlessFailed ==
    [][/\ \A t \in Tasks :
             waiting(t) /\ run_ends(waited(t)) =>
                 LET c == waited(t)
                     h == nodes[c[1]].permit[c[2]]
                 IN IF tasks'[h].err
                    THEN ~initialized(c[1], c[2])'
                    ELSE /\ initialized(c[1], c[2])'
                         /\ tasks'[h].seen # <<>>
                         /\ tasks'[h].seen[1].node = c[1]
                         /\ tasks'[h].seen[1].slot = c[2]
                         /\ nodes'[c[1]][c[2]] =
                                <<IF c[2] = "node_modules" THEN tasks'[h].seen[1].ref
                                  ELSE tasks'[h].seen[1].val>>
       /\ \A n \in 1..Len(nodes), slot \in Slots :
             initialized(n, slot) =>
                 /\ nodes'[n][slot] = nodes[n][slot]
                 /\ nodes'[n].permit[slot] = 0]_vars

\* C27, the case: a task waits at the package_json cell of /a while the task
\* that holds the permit is about to parse a package.json that is no JSON
C27_Witness ==
    \E t \in Tasks, h \in Tasks :
        /\ waiting(t)
        /\ waited(t)[2] = "package_json"
        /\ nodes[waited(t)[1]].permit["package_json"] = h
        /\ running(h, "package_json", "parse")
        /\ tasks[h].stack[Len(tasks[h].stack)].aux = 1

\* C27, after the failure: one task was given the error, and the other task
\* holds the permit of the same cell and runs the initializer again
C27_WitnessAgain ==
    \E t \in Tasks, h \in Tasks, n \in 1..Len(nodes) :
        /\ fs = StoreFsInvalid
        /\ tasks[h].stack = <<>>
        /\ tasks[h].err
        /\ tasks[h].node = 0
        /\ nodes[n].permit["package_json"] = t
        /\ running(t, "package_json", "parse")

\* C27, the realpath: a task waits at the canonicalized cell of /a while the
\* task that holds the permit is about to fail on the dangling link
C27_WitnessRealpath ==
    \E t \in Tasks, h \in Tasks :
        /\ fs = StoreFsDangling
        /\ waiting(t)
        /\ waited(t)[2] = "canonicalized"
        /\ nodes[waited(t)[1]].permit["canonicalized"] = h
        /\ running(h, "canonicalized", "init")


-----------------------------------------------------------------------------
(* package_imports_exports_resolve on the exports of one package: the      *)
(* object is given with its keys in every order.                           *)

\* the package directory
ExportsUrl == "/p/node_modules/m"

\* the expansion keys of the exports, each with its target
ExportsMembers ==
    {<<"./*", JStr("./all/*")>>,
     <<"./a*", JStr("./star*")>>,
     <<"./a/", JStr("./slash/")>>,
     <<"./a/*", JStr("./dir/*/*.js")>>,
     <<"./a/*.js", JStr("./js/*")>>,
     <<"./a/b*", JStr("./b/*")>>,
     <<"./a/b/", JStr("./deep/")>>,
     <<"./up/*", JStr("./../up/*")>>}

\* the subpaths that are looked up
ExportsSubpaths ==
    {"./a/b.js", "./a/b/c", "./ab", "./a/../c.js", "./a/node_modules/x", "./a/./c", "./a//c",
     "./c", "./../c", "./up/x"}

MaxKeys == 3

\* the objects: up to MaxKeys members, no key twice, in every order
ExportsObjects ==
    {obj \in UNION {[1..n -> ExportsMembers] : n \in 0..MaxKeys} :
        \A i, j \in DOMAIN obj : i # j => obj[i] # obj[j]}

ExportsInit ==
    /\ request \in [match_key : ExportsSubpaths, match_obj : ExportsObjects,
                     path : {NoPath}]
    /\ outcome = Idle
    /\ fs = [kind |-> <<>>, link |-> <<>>, json |-> <<>>]
    /\ paths = {}
    /\ tsconfigs = <<>>
    /\ nodes = {}
    /\ tasks = <<>>
    /\ calls = <<>>
    /\ generation = 0
    /\ changes = 0
    /\ stack = <<>>

\* PACKAGE_IMPORTS_EXPORTS_RESOLVE is called for the subpath
ImportsExportsResolve ==
    /\ request.path = NoPath
    /\ request' = [request EXCEPT !.path = ExportsUrl]
    /\ stack' = <<Future(Call("package_imports_exports_resolve", DefaultOptions, Start,
                               <<request.match_key, request.match_obj, ExportsUrl, FALSE>>))>>
    /\ UNCHANGED <<fs, paths, tsconfigs, nodes, tasks, calls, generation, changes, outcome>>

ExportsNext == ImportsExportsResolve \/ Poll

ExportsSpec == ExportsInit /\ [][ExportsNext]_vars


\* the key with one "*", or the key that ends with "/", matches the subpath
key_matches(key, match_key) ==
    IF contains(key, "*")
    THEN /\ starts_with(match_key, Take(key, position(key, "*") - 1))
         /\ ~contains(Drop(key, position(key, "*")), "*")
         /\ \/ position(key, "*") = Len(key)
            \/ /\ Len(match_key) >= Len(key)
               /\ ends_with(match_key, Drop(key, position(key, "*")))
    ELSE ends_with(key, "/") /\ starts_with(match_key, key)

\* the middle of the subpath that the key captures
captured(key, match_key) ==
    IF contains(key, "*")
    THEN SubSeq(match_key, position(key, "*"), Len(match_key) - (Len(key) - position(key, "*")))
    ELSE Drop(match_key, Len(key))

\* the members of the object whose keys match the subpath
candidates ==
    {request.match_obj[i] : i \in {j \in DOMAIN request.match_obj :
                                       key_matches(request.match_obj[j][1], request.match_key)}}

\* the candidates that PATTERN_KEY_COMPARE puts before every other candidate
most_specific ==
    {m \in candidates :
        \A other \in candidates \ {m} : pattern_key_compare(other[1], m[1]) = "Greater"}

\* the call for the subpath has returned; the subpath is no key of the object
\* and does not end with "/"
resolved_by_pattern ==
    /\ outcome.k # "idle"
    /\ members_get(request.match_obj, request.match_key) = <<>>
    /\ ~ends_with(request.match_key, "/")

\* the call returned what PACKAGE_TARGET_RESOLVE returns for the member m and
\* the middle its key captures
selected(m) ==
    LET r == string_target(DefaultOptions, Start, ExportsUrl, m[1], m[2].v,
                           captured(m[1], request.match_key), FALSE)
    IN  /\ outcome.k = r.k
        /\ outcome.p = r.p
        /\ outcome.e = r.e
        /\ outcome.a = r.a
        /\ outcome.b = r.b

RECURSIVE glue(_, _)
\* the pieces of a string put together with s between them
glue(pieces, s) ==
    IF Len(pieces) = 1 THEN pieces[1] ELSE pieces[1] \o s \o glue(Tail(pieces), s)

C28_WitnessMiddle ==
    /\ resolved_by_pattern
    /\ request.match_key = "./a/b.js"
    /\ Cardinality(candidates) = 3
    /\ request.match_obj[2] = <<"./a/b*", JStr("./b/*")>>
    /\ outcome.k = "ok"
    /\ outcome.p = "/p/node_modules/m/b/.js"

\* a key that ends with "/" and a key with "*" of the same base length both
\* match, and no key that matches has a longer base
tie(slash, star) ==
    /\ slash \in candidates
    /\ star \in candidates
    /\ ~contains(slash[1], "*")
    /\ contains(star[1], "*")
    /\ base_length(slash[1]) = base_length(star[1])
    /\ \A m \in candidates : base_length(m[1]) <= base_length(star[1])

\* C29: when a key without "*" and a key with "*" have the same base length
\* and both match the subpath, the target of the key without "*" is selected
C29_SlashKeyFirst ==
    resolved_by_pattern =>
        \A slash \in ExportsMembers, star \in ExportsMembers :
            tie(slash, star) => selected(slash)

\* C29, as the engine does it: when a key without "*" and a key with "*" have
\* the same base length and both match the subpath, the key with "*" is the
\* more specific one and its target is selected, in both orders of the keys
C29_StarKeyFirst ==
    resolved_by_pattern =>
        \A slash \in ExportsMembers, star \in ExportsMembers :
            tie(slash, star) => selected(star) /\ ~selected(slash)

\* C29, the case: ./a/ comes before ./a* in the object, both match ./a/b.js,
\* and the target ./star* of ./a* is used
C29_Witness ==
    /\ resolved_by_pattern
    /\ request.match_key = "./a/b.js"
    /\ request.match_obj = << <<"./a/", JStr("./slash/")>>, <<"./a*", JStr("./star*")>> >>
    /\ outcome.k = "ok"
    /\ outcome.p = "/p/node_modules/m/star/b.js"

\* C29, the case of the other order
C29_WitnessStarFirst ==
    /\ resolved_by_pattern
    /\ request.match_key = "./a/b/c"
    /\ request.match_obj = << <<"./a/b*", JStr("./b/*")>>, <<"./a/b/", JStr("./deep/")>> >>
    /\ outcome.k = "ok"
    /\ outcome.p = "/p/node_modules/m/b/c"

C30_WitnessInside ==
    /\ resolved_by_pattern
    /\ request.match_key = "./a//c"
    /\ \E m \in most_specific : captured(m[1], request.match_key) = "/c"
    /\ outcome.k = "ok"
    /\ outcome.p = "/p/node_modules/m/dir/c/c.js"


-----------------------------------------------------------------------------
(* load_node_modules on a tree with module directories at three levels.    *)

\* node_modules under /, /p and /p/d: m is in all three, mid in /p, far in /,
\* hollow is a directory without files under /p/d and a package under /p, k is
\* the file k.js under /p/d and a package under /p
Nested ==
    [kind |-> Dirs({"/", "/node_modules", "/node_modules/far", "/node_modules/m",
                    "/p", "/p/node_modules", "/p/node_modules/m", "/p/node_modules/mid",
                    "/p/node_modules/hollow", "/p/node_modules/k",
                    "/p/d", "/p/d/node_modules", "/p/d/node_modules/m",
                    "/p/d/node_modules/hollow", "/p/d/e"})
              @@ Files({"/node_modules/far/index.js", "/node_modules/m/index.js",
                        "/p/node_modules/m/index.js", "/p/node_modules/mid/index.js",
                        "/p/node_modules/hollow/index.js", "/p/node_modules/k/index.js",
                        "/p/d/node_modules/m/index.js", "/p/d/node_modules/k.js"}),
     link |-> <<>>,
     json |-> <<>>]

NestedRequests ==
    {Request(dir, s) : dir \in {"/p/d/e", "/p/d", "/p", "/p/d/zz"},
                       s \in {"m", "mid", "far", "hollow", "k", "nope", "m/index.js",
                              "hollow/index"}}

ModulesInit ==
    /\ fs = Nested
    /\ request = [o |-> DefaultOptions, requests |-> NestedRequests,
                  path |-> NoPath, specifier |-> ""]
    /\ nodes \in {{}, directories(Nested)}
    /\ tsconfigs = <<>>
    /\ paths = {}
    /\ tasks = <<>>
    /\ calls = <<>>
    /\ generation = 0
    /\ changes = 0
    /\ outcome = Idle
    /\ stack = <<>>

ModulesSpec == ModulesInit /\ [][Next]_vars

RECURSIVE ancestors(_)
\* a directory and its ancestors, from the nearest to the farthest
ancestors(dir) == IF dir = NoPath THEN <<>> ELSE <<dir>> \o ancestors(parent(dir))

\* the file that the specifier names under the module directory of dir, in a
\* tree without description files: the file itself, the file with an
\* extension, the index file of the directory; NoPath when there is none
module_resolution(dir, specifier) ==
    LET cand == normalize_with(join(dir, "node_modules"), specifier)
        named == normalize_with(join(dir, "node_modules"), package_name(specifier))
    IN  IF ~is_dir(dir) \/ ~is_dir(join(dir, "node_modules")) THEN NoPath
        ELSE IF package_subpath(specifier) # "" /\ ~is_dir(named) THEN NoPath
        ELSE IF is_file(cand) THEN cand
        ELSE IF first_acceptable(DefaultOptions, cand, DefaultOptions.extensions) # NoPath
        THEN first_acceptable(DefaultOptions, cand, DefaultOptions.extensions)
        ELSE IF is_dir(cand)
        THEN first_acceptable(DefaultOptions, join(cand, "index"), DefaultOptions.extensions)
        ELSE NoPath

\* the ancestors of the requesting directory under which the specifier resolves
resolving(dirs) ==
    {i \in DOMAIN dirs : module_resolution(dirs[i], request.specifier) # NoPath}

\* the ancestor under whose module directory the candidate cp lies, 0 for none
level(dirs, cp) ==
    LET at == {i \in DOMAIN dirs :
                  path_starts_with(cp, join(dirs[i], "node_modules"))}
    IN  IF at = {} THEN 0 ELSE CHOOSE i \in at : TRUE

\* C31: the module directories of the requesting directory and of its
\* ancestors are tried from the nearest to the farthest, and the call returns
\* the resolution under the nearest ancestor that has one: never one under a
\* farther ancestor
C31_NearestFirst ==
    outcome.k # "idle" =>
        LET dirs == ancestors(request.path) IN
        /\ IF resolving(dirs) = {}
           THEN outcome.k = "err" /\ outcome.e = "NotFound"
           ELSE /\ outcome.k = "ok"
                /\ \E i \in resolving(dirs) :
                      /\ \A j \in resolving(dirs) : i <= j
                      /\ outcome.p = module_resolution(dirs[i], request.specifier)
        /\ \A x \in DOMAIN log, y \in DOMAIN log :
              /\ x < y
              /\ log[x].ev = "load_as_file"
              /\ log[y].ev = "load_as_file"
              /\ level(dirs, log[x].a) # 0
              /\ level(dirs, log[y].a) # 0
              => level(dirs, log[x].a) <= level(dirs, log[y].a)

\* C31, the case: m is in the module directories of /p/d, /p and /, and the
\* call from /p/d/e returns the one of /p/d
C31_Witness ==
    /\ request.path = "/p/d/e"
    /\ request.specifier = "m"
    /\ Cardinality(resolving(ancestors(request.path))) = 3
    /\ outcome.k = "ok"
    /\ outcome.p = "/p/d/node_modules/m/index.js"

\* C31, the case of a nearer package that does not resolve: hollow has no
\* file under /p/d, and the call returns the one of /p after it tried /p/d
C31_WitnessNext ==
    /\ request.path = "/p/d"
    /\ request.specifier = "hollow"
    /\ outcome.k = "ok"
    /\ outcome.p = "/p/node_modules/hollow/index.js"
    /\ \E x \in DOMAIN log : tried_as_file(x, "/p/d/node_modules/hollow")


-----------------------------------------------------------------------------
(* CachedPathImpl::realpath with its memoized cells, one call after the     *)
(* other on a file system that does not change.  In this specification      *)
(* nodes maps a cached path to the content of its canonicalized cell.       *)

\* the symbolic links of the tree: a directory link, a link inside its target,
\* a file link, a link to nothing
Links ==
    {<<"/p/link", "/r">>, <<"/r/inner", "/q">>, <<"/p/flink.js", "/r/b.js">>,
     <<"/p/dangling", "/gone">>}

\* the tree with the links of the set present
Linked(present) ==
    [kind |-> Dirs({"/", "/p", "/r", "/r/s", "/q"})
              @@ Files({"/p/a.js", "/r/b.js", "/r/s/c.js", "/q/x.js"}),
     link |-> [name \in {l[1] : l \in present} |->
                  (CHOOSE l \in present : l[1] = name)[2]],
     json |-> <<>>]

RealpathPaths ==
    {"/", "/p", "/p/a.js", "/p/link", "/p/link/b.js", "/p/link/s/c.js", "/p/link/inner",
     "/p/link/inner/x.js", "/r/inner/x.js", "/p/flink.js", "/p/dangling", "/p/nope",
     "/p/link/..", "/p/link/s/../b.js", "/r/s/../b.js", "/p/./a.js"}

MaxRequests == 2

\* a realpath that never looks for a symbolic link
realpath_cell_lexical(memo, cp) == (key_of(cp) :> key_of(cp)) @@ memo

RECURSIVE realpath_cell(_, _)
\* CachedPathImpl::realpath: the cells after the call for cp.  A cell that is
\* set is read; an error of canonicalize or of the parent sets no cell
realpath_cell(memo, cp) ==
    IF key_of(cp) \in DOMAIN memo THEN memo
    ELSE IF fs_is_symlink(fs, cp)
    THEN IF fs_canonicalize(fs, cp) = NoPath THEN memo
         ELSE (key_of(cp) :> fs_canonicalize(fs, cp)) @@ memo
    ELSE IF parent(cp) = NoPath THEN (key_of(cp) :> cp) @@ memo
    ELSE LET cells == {realpath_cell(memo, parent(cp))} IN
         CHOOSE after \in
             {IF key_of(parent(cp)) \in DOMAIN c
              THEN (key_of(cp) :> realpath_under(c[key_of(parent(cp))], cp)) @@ c
              ELSE c : c \in cells} : TRUE

RealpathInit2 ==
    /\ fs \in {Linked(present) : present \in SUBSET Links}
    /\ nodes = <<>>
    /\ request = NoPath
    /\ outcome = "idle"
    /\ calls = 0
    /\ paths = {}
    /\ tsconfigs = {}
    /\ tasks = <<>>
    /\ generation = 0
    /\ changes = 0
    /\ stack = <<>>

\* CachedPathImpl::realpath is called for a path: NoPath stands for the error
Realpath ==
    /\ calls < MaxRequests
    /\ \E path \in RealpathPaths :
          /\ request' = path
          /\ nodes' = realpath_cell(nodes, path)
          /\ outcome' = IF key_of(path) \in DOMAIN nodes' THEN nodes'[key_of(path)]
                         ELSE NoPath
    /\ calls' = calls + 1
    /\ UNCHANGED <<fs, paths, tsconfigs, tasks, generation, changes, stack>>

RealpathNext == Realpath

RealpathSpec == RealpathInit2 /\ [][RealpathNext]_vars

\* the path or one of its ancestors, as written, is a symbolic link
has_link(cp) ==
    \E i \in 1..Len(components(cp)) :
        fs_is_symlink(fs, from_components(SubSeq(components(cp), 1, i)))

\* C32: for a path that exists, the memoized realpath is the path that the
\* canonicalize of the file system returns, for the path asked for and for
\* every cell that the calls have set; when neither the path nor an ancestor
\* is a symbolic link it is the path itself, in its normal form
C32_RealpathIsCanonical ==
    /\ outcome # "idle" /\ fs_canonicalize(fs, request) # NoPath =>
           /\ outcome = fs_canonicalize(fs, request)
           /\ ~has_link(request) => outcome = normalize(request)
    /\ outcome # "idle" =>
           \A cp \in DOMAIN nodes :
               fs_canonicalize(fs, cp) # NoPath => nodes[cp] = fs_canonicalize(fs, cp)

\* C32, the case: after a call for a sibling set the cell of the linked
\* directory /p/link, the call for /p/link/inner/x.js goes through two links
C32_Witness ==
    /\ calls = 2
    /\ request = "/p/link/inner/x.js"
    /\ outcome = "/q/x.js"
    /\ "/p/link/b.js" \in DOMAIN nodes
    /\ nodes["/p/link"] = "/r"

\* C32, the case without a link: the path is returned as it is
C32_WitnessUnchanged ==
    /\ request = "/p/a.js"
    /\ ~has_link(request)
    /\ outcome = "/p/a.js"


-----------------------------------------------------------------------------
(* Restrictions against absence: a resolve call, and the same call by a new *)
(* engine on the file system that lacks one file the restrictions reject.   *)
(* In this specification tasks keeps the file and the result of the first   *)
(* call.                                                                    *)

\* the options of the test should_try_to_find_alternative_1, the accepted
\* paths ending in .ts
RestrictedOptions ==
    [DefaultOptions EXCEPT !.extensions = <<".js", ".ts">>,
                           !.restrictions = <<[t |-> "fn", v |-> ".ts"]>>]

RestrictedResolvers ==
    { Resolver(Project, RestrictedOptions,
               {Request("/p", "./a"), Request("/p", "./b"), Request("/p", "./a.js"),
                Request("/p", "./dir"), Request("/p", "n")}),
      Resolver(Project, [RestrictedOptions EXCEPT
                            !.alias = << <<"file", <<AliasPath("/p/a.js")>> >>,
                                         <<"n", <<AliasPath("/p/b.js")>> >> >>],
               {Request("/p", "file"), Request("/p", "file/x"), Request("/p", "n/index.ts"),
                Request("/p", "./a")}),
      Resolver(Project, [DefaultOptions EXCEPT
                            !.alias = << <<"m", <<AliasPath("/p/b.js")>> >> >>,
                            !.restrictions = <<[t |-> "fn", v |-> "/m/a.js"]>>],
               {Request("/p", "m/a.js"), Request("/p", "m"), Request("/p", "./b")}) }

\* the files a resolution may try and the restrictions may reject
RestrictedFiles ==
    {"/p/a.js", "/p/b.js", "/p/dir/index.js", "/p/node_modules/n/index.js"}

\* the file system without one file
without(f, file) ==
    [f EXCEPT !.kind = [name \in DOMAIN f.kind \ {file} |-> f.kind[name]]]

RestrictedInit ==
    /\ \E resolver \in RestrictedResolvers :
          /\ fs = resolver.fs
          /\ request = [o |-> resolver.o, requests |-> resolver.requests,
                        path |-> NoPath, specifier |-> ""]
    /\ nodes = {}
    /\ tsconfigs = <<>>
    /\ paths = {}
    /\ tasks = <<>>
    /\ calls = <<>>
    /\ generation = 0
    /\ changes = 0
    /\ outcome = Idle
    /\ stack = <<>>

\* ResolverGeneric::resolve with the arguments of the call before, by a new
\* engine with the same options, after a file that exists and fails the
\* restrictions was taken away
ResolveWithout ==
    /\ tasks = <<>>
    /\ stack = <<>>
    /\ outcome.k \in {"ok", "err"}
    /\ \E file \in RestrictedFiles :
          /\ fs_kind(fs, file) = "file"
          /\ ~check_restrictions_from(request.o.restrictions, file)
          /\ fs' = without(fs, file)
          /\ tasks' = <<[file |-> file, result |-> outcome]>>
    /\ outcome' = Idle
    /\ nodes' = {}
    /\ stack' = <<Future(Call("resolve_impl", request.o, Start,
                              <<request.path, request.specifier>>))>>
    /\ UNCHANGED <<paths, tsconfigs, calls, generation, changes, request>>

RestrictedNext == Resolve \/ ResolveWithContext \/ Poll \/ ResolveWithout

RestrictedSpec == RestrictedInit /\ [][RestrictedNext]_vars

\* what a resolve call returns: the path, or the error and what it carries
returned(r) == [k |-> r.k, p |-> IF r.k = "ok" THEN r.p ELSE NoPath,
                e |-> IF r.k = "err" THEN <<r.e, r.a, r.b>> ELSE <<>>]

\* both calls are over
compared == tasks # <<>> /\ stack = <<>> /\ outcome.k \in {"ok", "err"}

\* C33 as stated: a file that exists and fails a restriction is treated as a
\* missing file: the call returns what it returns on the file system without
\* the file
C33_RejectedIsAbsent ==
    compared => returned(outcome) = returned(tasks[1].result)


\* the file taken away is a value of the alias option
alias_value_file ==
    \E i \in DOMAIN request.o.alias : \E j \in DOMAIN request.o.alias[i][2] :
        /\ request.o.alias[i][2][j].t = "path"
        /\ request.o.alias[i][2][j].v = tasks[1].file

\* C33: a file that exists and fails a restriction, and that is not a value
\* of the alias option, is treated as a missing file: the call tries the next
\* candidate and returns what it returns on the file system without the file
C33_RejectedIsAbsentUnlessAliasValue ==
    (compared /\ ~alias_value_file) => returned(outcome) = returned(tasks[1].result)


\* C33, the case: ./a finds /p/a.ts after /p/a.js was rejected, and finds it
\* on the file system without /p/a.js
C33_Witness ==
    /\ compared
    /\ request.specifier = "./a"
    /\ tasks[1].file = "/p/a.js"
    /\ tasks[1].result.k = "ok"
    /\ tasks[1].result.p = "/p/a.ts"
    /\ outcome.p = "/p/a.ts"

\* C33, the value of an alias: with the file /p/a.js the alias is passed over
\* and file/x is looked for as a module; without it the alias is tried and
\* fails
C33_WitnessAliasValue ==
    /\ compared
    /\ request.specifier = "file/x"
    /\ tasks[1].file = "/p/a.js"
    /\ tasks[1].result.e = "NotFound"
    /\ outcome.e = "MatchedAliasNotFound"


-----------------------------------------------------------------------------
(* The browser field that maps a candidate to false.                        *)

RECURSIVE nearest_package(_)
\* the package.json of the directory or of its nearest ancestor that has one
nearest_package(dir) ==
    IF dir = NoPath THEN NoPath
    ELSE IF fs_metadata(fs, normalize_with(dir, "package.json")) = "file"
    THEN normalize_with(dir, "package.json")
    ELSE nearest_package(parent(dir))

\* an alias field of the nearest package.json maps a key K to false and the
\* candidate is <package directory>/K
mapped_to_false(o, cp) ==
    /\ o.alias_fields # <<>>
    /\ nearest_package(cp) \in DOMAIN fs.json
    /\ resolve_browser_field([json |-> fs.json[nearest_package(cp)],
                              path |-> nearest_package(cp)],
                             cp, NoPath, o.alias_fields).t = "ignored"

\* load_as_file was entered at log[i] and asks load_alias_or_file for its path
probed(i) ==
    /\ log[i].ev = "load_as_file"
    /\ ~request.o.enforce_extension
    /\ request.o.extension_alias = <<>>
    /\ request.o.alias = <<>>

\* C34: when an alias field of the nearest package.json maps K to false and a
\* candidate that is tried is <package directory>/K, the call fails with
\* Ignored and that candidate, whether the file exists or not, and no
\* candidate is tried after it
C34_FalseIsIgnored ==
    outcome.k \in {"ok", "err"} =>
        \A i \in DOMAIN log :
            (probed(i) /\ mapped_to_false(request.o, log[i].a)) =>
                /\ outcome.k = "err"
                /\ outcome.e = "Ignored"
                /\ outcome.a = log[i].a
                /\ \A j \in (i + 1)..Len(log) : log[j].ev # "load_as_file"


-----------------------------------------------------------------------------
(* Tsconfigs that extend one another.                                       *)

Extending(specifiers) == JObj(<< <<"extends", specifiers>> >>)

\* the project with tsconfigs under /p/ext: base.json extends nothing,
\* ok.json extends base.json, self.json extends itself, a.json and b.json
\* extend each other, multi.json extends base.json and self.json
ExtendsProject ==
    [Project EXCEPT
        !.kind = Dirs({"/p/ext"})
                 @@ Files({"/p/ext/base.json", "/p/ext/ok.json", "/p/ext/self.json",
                           "/p/ext/a.json", "/p/ext/b.json", "/p/ext/multi.json"}) @@ @,
        !.json = ("/p/ext/base.json" :> TsconfigJson)
                 @@ ("/p/ext/ok.json" :> Extending(JStr("./base.json")))
                 @@ ("/p/ext/self.json" :> Extending(JStr("./self.json")))
                 @@ ("/p/ext/a.json" :> Extending(JStr("./b.json")))
                 @@ ("/p/ext/b.json" :> Extending(JStr("./a.json")))
                 @@ ("/p/ext/multi.json" :>
                        Extending(JArr(<<JStr("./base.json"), JStr("/p/ext/self.json")>>)))
                 @@ @]

ExtendsConfigs ==
    {"/p/ext/base.json", "/p/ext/ok.json", "/p/ext/self.json", "/p/ext/a.json",
     "/p/ext/multi.json", "/p/ext/none.json"}

ExtendsInit ==
    /\ fs = ExtendsProject
    /\ \E config_file \in ExtendsConfigs :
          request = [o |-> [DefaultOptions EXCEPT
                               !.tsconfig = <<[config_file |-> config_file,
                                               references |-> ReferencesDisabled]>>],
                     requests |-> {Request("/p", "./a"), Request("/p/ext", "foo"),
                                   Request("/p", "./nope")},
                     path |-> NoPath, specifier |-> ""]
    /\ nodes = {}
    /\ tsconfigs = <<>>
    /\ paths = {}
    /\ tasks = <<>>
    /\ calls = <<>>
    /\ generation = 0
    /\ changes = 0
    /\ outcome = Idle
    /\ stack = <<>>

ExtendsSpec == ExtendsInit /\ [][Next]_vars

\* C35: loading a tsconfig ends for every extends graph, one in which a
\* tsconfig extends itself directly or through others included: no call of
\* load_tsconfig is entered for a path whose load_tsconfig has not returned
C35_LoadTsconfigTerminates == outcome.k # "diverged"


-----------------------------------------------------------------------------
(* TsConfig::resolve_path_alias on its own.                                 *)

\* the keys of compilerOptions.paths, each with the one target ./t/*
AliasKeys == {"ab*ba", "a*", "*ba", "*", "ab*", "aba", "x*y"}

AliasSpecifiers == {"aba", "abba", "abxba", "ab", "ba", "a", "xy", "./aba"}

AliasInit ==
    /\ request \in [key_a : AliasKeys, key_b : AliasKeys, specifier : AliasSpecifiers]
    /\ outcome = [k |-> "idle"]
    /\ fs = <<>>
    /\ paths = {}
    /\ tsconfigs = {}
    /\ nodes = <<>>
    /\ tasks = <<>>
    /\ calls = <<>>
    /\ generation = 0
    /\ changes = 0
    /\ stack = <<>>

\* the tsconfig of /p whose paths have the keys of the request
alias_tsconfig ==
    [NoTsconfig EXCEPT
        !.path = "/p/tsconfig.json", !.has_paths = TRUE, !.paths_base = "/p",
        !.paths = IF request.key_a = request.key_b
                  THEN << <<request.key_a, <<"./t/*">> >> >>
                  ELSE << <<request.key_a, <<"./t/*">> >>, <<request.key_b, <<"./t/*">> >> >>]

\* TsConfig::resolve_path_alias is applied to the specifier
ResolvePathAlias ==
    /\ outcome.k = "idle"
    /\ outcome' = [k |-> "resolved",
                   paths |-> resolve_path_alias(alias_tsconfig, request.specifier)]
    /\ UNCHANGED <<fs, paths, tsconfigs, nodes, tasks, calls, generation, changes, request,
                   stack>>

AliasNext == ResolvePathAlias

AliasSpec == AliasInit /\ [][AliasNext]_vars

\* C36: resolve_path_alias never panics: for every specifier and every key
\* with a "*" the slice specifier[prefix_len .. len - suffix_len] exists, also
\* when the prefix and the suffix of the key overlap in the specifier
C36_NeverPanics == outcome.k = "resolved" => ~outcome.paths.panic


-----------------------------------------------------------------------------
(* A resolve call on a cache of its own and the same call on a cache that   *)
(* the engine shares with an engine of other options.  In this              *)
(* specification tasks keeps the result of the first call.                  *)

SharedResolvers ==
    { Resolver(Project, DefaultOptions,
               {Request("/p", "./a"), Request("/p", "m"), Request("/p", "./nope")}),
      Resolver(Project, [DefaultOptions EXCEPT !.tsconfig = ProjectTsconfig],
               {Request("/p", "./a"), Request("/p", "foo")}),
      Resolver(Project, [DefaultOptions EXCEPT !.tsconfig = SelfTsconfig],
               {Request("/p", "./a"), Request("/p/self", "foo")}),
      Resolver(Project, [DefaultOptions EXCEPT !.tsconfig = SelfTsconfigPaths],
               {Request("/p", "./a")}),
      Resolver(Project, [DefaultOptions EXCEPT !.tsconfig = ReferringTsconfig],
               {Request("/p", "./a"), Request("/p", "foo")}) }

SharedInit ==
    /\ \E resolver \in SharedResolvers :
          /\ fs = resolver.fs
          /\ request = [o |-> resolver.o, requests |-> resolver.requests,
                        path |-> NoPath, specifier |-> ""]
    /\ nodes = {}
    /\ tsconfigs = <<>>
    /\ paths = {}
    /\ tasks = <<>>
    /\ calls = <<>>
    /\ generation = 0
    /\ changes = 0
    /\ outcome = Idle
    /\ stack = <<>>

\* ResolverGeneric::resolve with the arguments of the call before, by an
\* engine with the same options on a cache it shares through
\* clone_with_options: the resolutions of the other engine have initialized
\* the node_modules slots of the directories, or have memoized the project
\* references of the tsconfig they loaded, or nothing
ResolveShared ==
    /\ tasks = <<>>
    /\ stack = <<>>
    /\ outcome.k \in {"ok", "err"}
    /\ tasks' = <<[result |-> outcome]>>
    /\ nodes' \in {{}, directories(fs)}
    /\ tsconfigs' \in memos(fs, request.o)
    /\ outcome' = Idle
    /\ stack' = <<Future(Call("resolve_impl", request.o, Start,
                              <<request.path, request.specifier>>))>>
    /\ UNCHANGED <<fs, paths, calls, generation, changes, request>>

SharedNext == Resolve \/ ResolveWithContext \/ Poll \/ ResolveShared

SharedSpec == SharedInit /\ [][SharedNext]_vars

\* what the Resolution of a call holds besides its path, and the error
resolved_to(r) ==
    [returned |-> returned(r),
     query |-> r.ctx.query, fragment |-> r.ctx.fragment,
     package_json |-> IF r.k = "ok" THEN <<r.pkg.path, r.pkg.realpath>> ELSE <<>>]

\* C37: on a file system that does not change, what resolve returns depends
\* on the options of the engine and on the arguments only: the call on a cache
\* shared with engines of other options returns what the call on a cache of
\* its own returns
C37_OutcomeOfOptionsAndArguments ==
    compared => resolved_to(outcome) = resolved_to(tasks[1].result)


-----------------------------------------------------------------------------
(* The guard of the PnP manifest table.  find_pnp_manifest takes the entry  *)
(* of pnp_manifest_content_cache, a DashMap: entry() waits, blocking its    *)
(* thread, until no reference into the shard of the key is held, and the    *)
(* Ref that find_pnp_manifest returns is such a reference.  The tasks       *)
(* resolve in one PnP project, so they share the key of one manifest.  In   *)
(* this specification tasks maps a task to its thread, its position in      *)
(* load_pnp, the guards it holds, the depth of its resolve calls and        *)
(* whether it has waited inside entry(), and nodes holds the keys of        *)
(* pnp_manifest_content_cache.                                              *)

PnpTasks == 1..2

Threads == 1..2

\* the resolve calls of load_pnp inside one another
MaxInner == 2

ManifestPath == "/p/.pnp.cjs"

PnpInit ==
    /\ tasks \in [PnpTasks -> [thread : Threads, pc : {"idle"}, guards : {0}, depth : {0},
                               waited : {FALSE}]]
    /\ nodes = {}
    /\ fs = <<>>
    /\ paths = {}
    /\ tsconfigs = {}
    /\ calls = <<>>
    /\ generation = 0
    /\ changes = 0
    /\ request = <<>>
    /\ outcome = <<>>
    /\ stack = <<>>

\* the tasks that hold a Ref into the shard of the manifest
holders == {t \in PnpTasks : tasks[t].guards > 0}

\* the thread of the task runs: none of its tasks waits inside entry()
runs(t) == \A u \in PnpTasks : tasks[u].thread = tasks[t].thread => tasks[u].pc # "blocked"

\* find_pnp_manifest once entry() has the shard: the manifest is inserted and
\* the entry is downgraded to the Ref that load_pnp keeps
guarded(t) ==
    /\ nodes' = nodes \cup {ManifestPath}
    /\ tasks' = [tasks EXCEPT ![t].pc = "await", ![t].guards = @ + 1]

\* load_node_modules calls load_pnp for a bare specifier: find_pnp_manifest
\* asks for the entry of the manifest, and load_pnp reaches its awaits with
\* the Ref, or the thread waits inside entry()
LoadPnp(t) ==
    /\ tasks[t].pc \in {"idle", "bare"}
    /\ runs(t)
    /\ IF holders = {} THEN guarded(t)
       ELSE /\ tasks' = [tasks EXCEPT ![t].pc = "blocked", ![t].waited = TRUE]
            /\ UNCHANGED nodes
    /\ UNCHANGED <<fs, paths, tsconfigs, calls, generation, changes, request, outcome, stack>>

\* entry() gets the shard after the last Ref was dropped
Acquire(t) ==
    /\ tasks[t].pc = "blocked"
    /\ holders = {}
    /\ guarded(t)
    /\ UNCHANGED <<fs, paths, tsconfigs, calls, generation, changes, request, outcome, stack>>

\* load_pnp awaits load_package_self and inner_resolver.resolve with the Ref
\* alive: the resolution ends in the package, or it comes to a bare specifier
\* (a browser field or an alias that names a package) and to load_node_modules
InnerResolve(t) ==
    /\ tasks[t].pc = "await"
    /\ runs(t)
    /\ \E bare \in BOOLEAN :
          tasks' = [tasks EXCEPT
                       ![t].pc = IF bare /\ tasks[t].depth < MaxInner THEN "bare"
                                 ELSE "returning",
                       ![t].depth = IF bare /\ tasks[t].depth < MaxInner THEN @ + 1 ELSE @]
    /\ UNCHANGED <<fs, paths, tsconfigs, nodes, calls, generation, changes, request, outcome,
                   stack>>

\* load_pnp returns: its Ref is dropped
LoadPnpReturn(t) ==
    /\ tasks[t].pc = "returning"
    /\ runs(t)
    /\ tasks' = [tasks EXCEPT ![t].guards = @ - 1,
                               ![t].pc = IF tasks[t].guards = 1 THEN "done" ELSE "returning"]
    /\ UNCHANGED <<fs, paths, tsconfigs, nodes, calls, generation, changes, request, outcome,
                   stack>>

PnpNext ==
    \E t \in PnpTasks : LoadPnp(t) \/ Acquire(t) \/ InnerResolve(t) \/ LoadPnpReturn(t)

PnpSpec == PnpInit /\ [][PnpNext]_vars

\* C38: no resolution blocks for ever on the PnP manifest tables: a task
\* asks for an entry of pnp_manifest_content_cache only when neither the task
\* nor a task of the same thread holds the guard of find_pnp_manifest
C38_NoRequestUnderGuard ==
    \A t \in PnpTasks :
        tasks[t].pc = "blocked" =>
            \A u \in holders : tasks[u].thread # tasks[t].thread

====
